---- MODULE Spec2Model ----
(***************************************************************************)
(* The key/value context-cache memoization and pooling engine of           *)
(* lzero/model/unizero_world_models/world_model.py (class WorldModel):     *)
(* the three ring-buffer pools, the two kinds of hash index, trim-and-pad, *)
(* the window shrink with its positional correction, and the three driver  *)
(* entry points forward_initial_inference, forward_recurrent_inference and *)
(* clear_caches.                                                           *)
(*                                                                         *)
(* A tensor of shape [n, heads, T, head_dim] is modelled as a sequence     *)
(* over the batch axis of sequences over the sequence axis of integers     *)
(* (heads and head_dim collapsed into one bounded integer per position).   *)
(* Sequence positions are 0-based in the code and in the comments; the     *)
(* TLA+ sequences are 1-based, so position p is element p + 1.             *)
(***************************************************************************)
EXTENDS Integers, Sequences, FiniteSets, TLC

VARIABLES
    context_length,                 \* self.context_length (config)
    rotary_emb,                     \* self.config.rotary_emb
    empty_fill,                     \* what freshly allocated cache memory holds
    reanalyze_phase,                \* self.reanalyze_phase
    shared_pool_recur_infer,        \* recurrent pool: slots, None = <<>>
    shared_pool_index,              \* recurrent pool write cursor
    shared_pool_init_infer,         \* per-environment init pools
    shared_pool_index_init_envs,    \* per-environment init cursors
    shared_pool_wm,                 \* scratch pool
    shared_pool_index_wm,           \* scratch pool write cursor
    past_kv_cache_recurrent_infer,  \* shared hash index: hash -> slot
    past_kv_cache_init_infer_envs,  \* per-environment hash index
    keys_values_wm_list,            \* batch under assembly (references)
    keys_values_wm_size_list,
    keys_values_wm_size_list_current,
    keys_values_wm,                 \* batched working cache
    keys_values_wm_single_env,      \* single-environment working cache
    latent_state,                   \* self.latent_state
    hit_count, total_query_count, root_hit_cnt, root_total_query_cnt,
    error,                          \* "none", or the failure a handler raised
    pc,                             \* position inside a handler
    last_call,                      \* the driver call made last, with its arguments
    calls,                          \* number of driver calls made so far
    simulation_index,               \* recurrent calls since the last initial inference
    store_log,                      \* history of stores and index clears, in order
    twin                            \* two-run comparison: script, run number, snapshot

vars == << context_length, rotary_emb, empty_fill, reanalyze_phase,
           shared_pool_recur_infer, shared_pool_index,
           shared_pool_init_infer, shared_pool_index_init_envs,
           shared_pool_wm, shared_pool_index_wm,
           past_kv_cache_recurrent_infer, past_kv_cache_init_infer_envs,
           keys_values_wm_list, keys_values_wm_size_list,
           keys_values_wm_size_list_current,
           keys_values_wm, keys_values_wm_single_env, latent_state,
           hit_count, total_query_count, root_hit_cnt, root_total_query_cnt,
           error, pc, last_call, calls, simulation_index, store_log,
           twin >>

(***************************************************************************)
(* Configuration and bounds                                                *)
(***************************************************************************)
env_num == 2
num_simulations == 1
num_layers == 2
\* Variant: the pool sized for one environment only.
shared_pool_size_NoEnvFactor == num_simulations
shared_pool_size == num_simulations * env_num
shared_pool_size_init == 2
shared_pool_size_wm == env_num

\* Latent states are 1..MaxLatent; action tokens are 0..MaxAction.
MaxLatent == 2
MaxAction == 0
\* Driver calls explored by Spec.
MaxCalls == 3
\* Counter values a second, compared run starts with.
CounterShift == 5

Latents == 1..MaxLatent
Actions == 0..MaxAction
Envs == 0..(env_num - 1)
Layers == 1..num_layers
None == << >>

Max(S) == CHOOSE x \in S : \A y \in S : y <= x
SeqMax(s) == Max({s[i] : i \in 1..Len(s)})

(***************************************************************************)
(* hash_state: xxh64 over the raw bytes of the latent vector.  Modelled as *)
(* an injective digest on the bounded set of latent states.                *)
(***************************************************************************)
hash_state(state) == << "xxh64", state >>

(***************************************************************************)
(* Embeddings as bounded integers.  The content of a token is a multiple   *)
(* of 100, the positional tables hold values in 1..7, so content and       *)
(* positional part of a cache entry stay separable.                        *)
(***************************************************************************)
ObsEmbedding(z) == 100 * z
ActEmbedding(a) == 100 * (MaxLatent + 1 + a)

\* attn.key(pos_emb.weight) and attn.value(pos_emb.weight) of a layer
positional_embedding_k(layer, p) == ((p * p + 3 * layer) % 7) + 1
positional_embedding_v(layer, p) == ((p * p * p + layer) % 5) + 1

\* pos_emb_diff_k[layer][(start, end)] at offset j: new minus original
pos_emb_diff_k(layer, start, end, j) ==
    positional_embedding_k(layer, j) - positional_embedding_k(layer, start + j)
pos_emb_diff_v(layer, start, end, j) ==
    positional_embedding_v(layer, j) - positional_embedding_v(layer, start + j)

\* The key (value) entry the sequence model appends for a token with content
\* c at absolute position p.
KeyEntry(layer, c, p) ==
    IF rotary_emb THEN c ELSE c + positional_embedding_k(layer, p)
ValueEntry(layer, c, p) ==
    IF rotary_emb THEN c ELSE c + positional_embedding_v(layer, p)

(***************************************************************************)
(* KeysValues: a sequence over layers of                                   *)
(*   [k |-> [cache, size], v |-> [cache, size]]                            *)
(* with cache a sequence over the batch of buffers of length max_tokens.   *)
(***************************************************************************)
EmptyBuffer == [p \in 1..context_length |-> empty_fill]

generate_empty_keys_values(n) ==
    [l \in Layers |->
        [k |-> [cache |-> [b \in 1..n |-> EmptyBuffer], size |-> 0],
         v |-> [cache |-> [b \in 1..n |-> EmptyBuffer], size |-> 0]]]

\* KeysValues(n, num_heads, max_tokens, embed_dim, num_layers, device) with
\* the shape of src_kv
NewKeysValuesLike(src_kv) ==
    [l \in 1..Len(src_kv) |->
        LET shape == src_kv[1].k.cache
            fresh == [b \in 1..Len(shape) |->
                        [p \in 1..Len(shape[1]) |-> empty_fill]]
        IN [k |-> [cache |-> fresh, size |-> 0],
            v |-> [cache |-> fresh, size |-> 0]]]

\* KeysValues.size
KVSize(kv) == kv[1].k.size

\* Variant: the caches are copied, the sizes are not assigned.
CopyLayers_KeepsSize(src_kv, dst_kv) ==
    [l \in 1..Len(dst_kv) |->
        IF l <= Len(src_kv)
        THEN [k |-> [cache |-> src_kv[l].k.cache, size |-> dst_kv[l].k.size],
              v |-> [cache |-> src_kv[l].v.cache, size |-> dst_kv[l].v.size]]
        ELSE dst_kv[l]]

\* for src_layer, dst_layer in zip(...): copy_ the caches, assign the sizes
CopyLayers(src_kv, dst_kv) ==
    [l \in 1..Len(dst_kv) |->
        IF l <= Len(src_kv)
        THEN [k |-> [cache |-> src_kv[l].k.cache, size |-> src_kv[l].k.size],
              v |-> [cache |-> src_kv[l].v.cache, size |-> src_kv[l].v.size]]
        ELSE dst_kv[l]]

(***************************************************************************)
(* Pool stores.  Each returns the new pool, the new cursor and the value   *)
(* the method returns.                                                     *)
(***************************************************************************)
\* Variant: a slot that already holds a context is left as it is.
custom_copy_kv_cache_to_shared_init_envs_KeepsOccupied(pool, cursor, src_kv, env_id) ==
    LET slot == cursor[env_id] + 1
        dst_kv == IF pool[env_id][slot] = None
                  THEN CopyLayers(src_kv, NewKeysValuesLike(src_kv))
                  ELSE pool[env_id][slot]
    IN [pool |-> [pool EXCEPT ![env_id][slot] = dst_kv],
        cursor |-> [cursor EXCEPT ![env_id] =
                        (cursor[env_id] + 1) % shared_pool_size_init],
        index |-> cursor[env_id]]

\* Variant: the index returned is that of the advanced cursor.
custom_copy_kv_cache_to_shared_init_envs_ReturnsNext(pool, cursor, src_kv, env_id) ==
    LET slot == cursor[env_id] + 1
        allocated == IF pool[env_id][slot] = None
                     THEN NewKeysValuesLike(src_kv)
                     ELSE pool[env_id][slot]
        dst_kv == CopyLayers(src_kv, allocated)
    IN [pool |-> [pool EXCEPT ![env_id][slot] = dst_kv],
        cursor |-> [cursor EXCEPT ![env_id] =
                        (cursor[env_id] + 1) % shared_pool_size_init],
        index |-> (cursor[env_id] + 1) % shared_pool_size_init]

custom_copy_kv_cache_to_shared_init_envs(pool, cursor, src_kv, env_id) ==
    LET slot == cursor[env_id] + 1
        allocated == IF pool[env_id][slot] = None
                     THEN NewKeysValuesLike(src_kv)
                     ELSE pool[env_id][slot]
        dst_kv == CopyLayers(src_kv, allocated)
    IN [pool |-> [pool EXCEPT ![env_id][slot] = dst_kv],
        cursor |-> [cursor EXCEPT ![env_id] =
                        (cursor[env_id] + 1) % shared_pool_size_init],
        index |-> cursor[env_id]]

\* Variant: the cursor of the scratch pool is not advanced.
custom_copy_kv_cache_to_shared_wm_KeepsCursor(pool, cursor, src_kv) ==
    LET slot == cursor + 1
        allocated == IF pool[slot] = None
                     THEN NewKeysValuesLike(src_kv)
                     ELSE pool[slot]
        dst_kv == CopyLayers(src_kv, allocated)
    IN [pool |-> [pool EXCEPT ![slot] = dst_kv],
        cursor |-> cursor,
        slot |-> cursor]

\* Variant: the cursor advances without the modulo.
custom_copy_kv_cache_to_shared_wm_NoWrap(pool, cursor, src_kv) ==
    LET slot == cursor + 1
        allocated == IF pool[slot] = None
                     THEN NewKeysValuesLike(src_kv)
                     ELSE pool[slot]
        dst_kv == CopyLayers(src_kv, allocated)
    IN [pool |-> [pool EXCEPT ![slot] = dst_kv],
        cursor |-> cursor + 1,
        slot |-> cursor]

custom_copy_kv_cache_to_shared_wm(pool, cursor, src_kv) ==
    LET slot == cursor + 1
        allocated == IF pool[slot] = None
                     THEN NewKeysValuesLike(src_kv)
                     ELSE pool[slot]
        dst_kv == CopyLayers(src_kv, allocated)
    IN [pool |-> [pool EXCEPT ![slot] = dst_kv],
        cursor |-> (cursor + 1) % shared_pool_size_wm,
        slot |-> cursor]

\* Variant: the slot written by the previous store is released.
custom_copy_kv_cache_to_shared_recur_ReleasesPrevious(pool, cursor, src_kv) ==
    LET slot == cursor + 1
        previous == ((cursor + shared_pool_size - 1) % shared_pool_size) + 1
        allocated == IF pool[slot] = None
                     THEN NewKeysValuesLike(src_kv)
                     ELSE pool[slot]
        dst_kv == CopyLayers(src_kv, allocated)
    IN [pool |-> [j \in 1..Len(pool) |->
                     IF j = slot THEN dst_kv
                     ELSE IF j = previous THEN None ELSE pool[j]],
        cursor |-> (cursor + 1) % shared_pool_size,
        index |-> cursor]

\* Mutant: returns the advanced cursor instead of the slot written.
custom_copy_kv_cache_to_shared_recur_ReturnsNext(pool, cursor, src_kv) ==
    LET slot == cursor + 1
        allocated == IF pool[slot] = None
                     THEN NewKeysValuesLike(src_kv)
                     ELSE pool[slot]
        dst_kv == CopyLayers(src_kv, allocated)
    IN [pool |-> [pool EXCEPT ![slot] = dst_kv],
        cursor |-> (cursor + 1) % shared_pool_size,
        index |-> (cursor + 1) % shared_pool_size]

custom_copy_kv_cache_to_shared_recur(pool, cursor, src_kv) ==
    LET slot == cursor + 1
        allocated == IF pool[slot] = None
                     THEN NewKeysValuesLike(src_kv)
                     ELSE pool[slot]
        dst_kv == CopyLayers(src_kv, allocated)
    IN [pool |-> [pool EXCEPT ![slot] = dst_kv],
        cursor |-> (cursor + 1) % shared_pool_size,
        index |-> cursor]

(***************************************************************************)
(* Hash indices: Python dicts, modelled as functions on the set of keys    *)
(* present.  dict.get(key) is DictHas / d[key].                            *)
(***************************************************************************)
EmptyDict == << >>
DictHas(d, key) == key \in DOMAIN d
\* Variant: a hash already present keeps the slot index it has.
DictPut_FirstWins(d, key, value) ==
    IF key \in DOMAIN d THEN d
    ELSE [h \in (DOMAIN d) \cup {key} |-> IF h = key THEN value ELSE d[h]]
\* Variant: the slot index is not recorded.
DictPut_NoRecord(d, key, value) == d
DictPut(d, key, value) ==
    [h \in (DOMAIN d) \cup {key} |-> IF h = key THEN value ELSE d[h]]

(***************************************************************************)
(* The sequence model's forward pass, as far as the cache is concerned:    *)
(* one token per batch item is appended at position `size` of every layer. *)
(* contents[b] is the embedding content of item b's token.  The absolute   *)
(* position baked into the entry is prev_steps = past_keys_values.size     *)
(* during initial inference and keys_values_wm_size_list_current[b]        *)
(* otherwise (_add_position_embeddings).                                   *)
(***************************************************************************)
CanAppend(kv) == KVSize(kv) < Len(kv[1].k.cache[1])

AppendEntries(c, entries) ==
    [cache |-> [b \in 1..Len(c.cache) |->
                  [p \in 1..Len(c.cache[b]) |->
                      IF p = c.size + 1 THEN entries[b] ELSE c.cache[b][p]]],
     size |-> c.size + 1]

forward(kv, contents, is_init_infer, valid_context_lengths) ==
    LET prev_steps == KVSize(kv)
        position(b) == IF is_init_infer THEN prev_steps
                       ELSE valid_context_lengths[b]
    IN [l \in 1..Len(kv) |->
          [k |-> AppendEntries(kv[l].k,
                    [b \in 1..Len(kv[l].k.cache) |->
                        KeyEntry(l, contents[b], position(b))]),
           v |-> AppendEntries(kv[l].v,
                    [b \in 1..Len(kv[l].v.cache) |->
                        ValueEntry(l, contents[b], position(b))])]]

(***************************************************************************)
(* trim_and_pad_kv_cache                                                   *)
(***************************************************************************)
\* Variant: the zeros are padded at the end, nothing is moved.
TrimEndPadFront_PadsEnd(buf, pad_size) ==
    IF pad_size > 0
    THEN [p \in 1..Len(buf) |-> IF p > Len(buf) - pad_size THEN 0 ELSE buf[p]]
    ELSE buf

\* F.pad(cache[:, :, :-pad_size, :], (0, 0, pad_size, 0)) on one buffer
TrimEndPadFront(buf, pad_size) ==
    IF pad_size > 0
    THEN [p \in 1..Len(buf) |-> IF p <= pad_size THEN 0 ELSE buf[p - pad_size]]
    ELSE buf

\* Variant: the list returned is first set to max_size in every entry.
trim_and_pad_kv_cache_UniformSizes(kv_list, size_list, wm) ==
    LET max_size == SeqMax(size_list)
        pad_size(idx) == max_size - size_list[idx]
    IN [wm |-> [l \in 1..Len(wm) |->
                  IF l \in Layers
                  THEN [k |-> [cache |-> [idx \in 1..Len(kv_list) |->
                                 TrimEndPadFront(kv_list[idx][l].k.cache[1],
                                                 pad_size(idx))],
                               size |-> max_size],
                        v |-> [cache |-> [idx \in 1..Len(kv_list) |->
                                 TrimEndPadFront(kv_list[idx][l].v.cache[1],
                                                 pad_size(idx))],
                               size |-> max_size]]
                  ELSE wm[l]],
        sizes |-> [idx \in 1..Len(size_list) |-> max_size]]

\* kv_list: the contexts the entries of keys_values_wm_list refer to.
\* Returns the new keys_values_wm and the list the method returns.
trim_and_pad_kv_cache(kv_list, size_list, wm) ==
    LET max_size == SeqMax(size_list)
        pad_size(idx) == max_size - size_list[idx]
    IN [wm |-> [l \in 1..Len(wm) |->
                  IF l \in Layers
                  THEN [k |-> [cache |-> [idx \in 1..Len(kv_list) |->
                                 TrimEndPadFront(kv_list[idx][l].k.cache[1],
                                                 pad_size(idx))],
                               size |-> max_size],
                        v |-> [cache |-> [idx \in 1..Len(kv_list) |->
                                 TrimEndPadFront(kv_list[idx][l].v.cache[1],
                                                 pad_size(idx))],
                               size |-> max_size]]
                  ELSE wm[l]],
        sizes |-> size_list]

(***************************************************************************)
(* update_cache_context                                                    *)
(***************************************************************************)
\* F.pad(cache[:, trim_size:, :], (0, 0, 0, trim_size)) on one buffer
TrimFrontPadEnd(buf, trim_size) ==
    IF trim_size > 0
    THEN [p \in 1..Len(buf) |->
            IF p + trim_size <= Len(buf) THEN buf[p + trim_size] ELSE 0]
    ELSE buf

\* Variant: the difference is taken the other way round.
PosDiff_Reversed(layer, kind, j) ==
    IF rotary_emb THEN 0
    ELSE IF kind = "k"
         THEN 0 - pos_emb_diff_k(layer, 2, context_length - 1, j)
         ELSE 0 - pos_emb_diff_v(layer, 2, context_length - 1, j)

\* pos_emb_diff_k / pos_emb_diff_v for the window (2, context_length - 1),
\* applied only without rotary embeddings
PosDiff(layer, kind, j) ==
    IF rotary_emb THEN 0
    ELSE IF kind = "k"
         THEN pos_emb_diff_k(layer, 2, context_length - 1, j)
         ELSE pos_emb_diff_v(layer, 2, context_length - 1, j)

\* Variant: the window kept starts at position 0.
ShrinkWindow_KeepsOldest(buf, layer, kind) ==
    LET kept == (IF Len(buf) < context_length - 1 THEN Len(buf)
                 ELSE context_length - 1) - 2
    IN [p \in 1..(kept + 3) |->
          IF p <= kept THEN buf[p] + PosDiff(layer, kind, p - 1) ELSE 0]

\* cache[:, 2:context_length - 1, :] (+= pos_emb_diff), then three zero
\* positions appended
ShrinkWindow(buf, layer, kind) ==
    LET kept == (IF Len(buf) < context_length - 1 THEN Len(buf)
                 ELSE context_length - 1) - 2
    IN [p \in 1..(kept + 3) |->
          IF p <= kept THEN buf[p + 2] + PosDiff(layer, kind, p - 1) ELSE 0]

\* The += of the positional difference acts on a view of the source buffer:
\* the source's positions 2..context_length-2 are corrected in place.
CorrectedInPlace(buf, layer, kind) ==
    [p \in 1..Len(buf) |->
        IF p >= 3 /\ p <= context_length - 1
        THEN buf[p] + PosDiff(layer, kind, p - 3) ELSE buf[p]]

ReplaceItem(cache, b, buf) == [cache EXCEPT ![b] = buf]

\* Variant: the window is shrunk only once the cache is full.
RootLayer_ShrinksLate(wm_layer, layer, b) ==
    IF wm_layer.k.size < context_length
    THEN [single |-> [k |-> [cache |-> << wm_layer.k.cache[b] >>,
                             size |-> wm_layer.k.size],
                      v |-> [cache |-> << wm_layer.v.cache[b] >>,
                             size |-> wm_layer.v.size]],
          wm |-> wm_layer]
    ELSE [single |-> [k |-> [cache |-> << ShrinkWindow(wm_layer.k.cache[b], layer, "k") >>,
                             size |-> context_length - 3],
                      v |-> [cache |-> << ShrinkWindow(wm_layer.v.cache[b], layer, "v") >>,
                             size |-> context_length - 3]],
          wm |-> wm_layer]

\* Root node, one layer of batch item b: the single-environment layer and
\* the batched layer after the step.
RootLayer(wm_layer, layer, b) ==
    IF wm_layer.k.size < context_length - 1
    THEN [single |-> [k |-> [cache |-> << wm_layer.k.cache[b] >>,
                             size |-> wm_layer.k.size],
                      v |-> [cache |-> << wm_layer.v.cache[b] >>,
                             size |-> wm_layer.v.size]],
          wm |-> wm_layer]
    ELSE [single |-> [k |-> [cache |-> << ShrinkWindow(wm_layer.k.cache[b], layer, "k") >>,
                             size |-> context_length - 3],
                      v |-> [cache |-> << ShrinkWindow(wm_layer.v.cache[b], layer, "v") >>,
                             size |-> context_length - 3]],
          wm |-> [k |-> [cache |-> ReplaceItem(wm_layer.k.cache, b,
                                     CorrectedInPlace(wm_layer.k.cache[b], layer, "k")),
                         size |-> wm_layer.k.size],
                  v |-> [cache |-> ReplaceItem(wm_layer.v.cache, b,
                                     CorrectedInPlace(wm_layer.v.cache[b], layer, "v")),
                         size |-> wm_layer.v.size]]]

\* Variant: the leading zeros of the row are not moved to its end.
InternalLayer_KeepsPadding(wm_layer, layer, b, size_list_current) ==
    LET current_max_context_length == SeqMax(size_list_current)
        trim_size == 0
        k_cache_padded == TrimFrontPadEnd(wm_layer.k.cache[b], trim_size)
        v_cache_padded == TrimFrontPadEnd(wm_layer.v.cache[b], trim_size)
        size == size_list_current[b]
    IN IF size >= context_length - 1
       THEN [single |-> [k |-> [cache |-> << ShrinkWindow(k_cache_padded, layer, "k") >>,
                                size |-> context_length - 3],
                         v |-> [cache |-> << ShrinkWindow(v_cache_padded, layer, "v") >>,
                                size |-> context_length - 3]],
             wm |-> IF trim_size > 0 THEN wm_layer
                    ELSE [k |-> [cache |-> ReplaceItem(wm_layer.k.cache, b,
                                     CorrectedInPlace(wm_layer.k.cache[b], layer, "k")),
                                 size |-> wm_layer.k.size],
                          v |-> [cache |-> ReplaceItem(wm_layer.v.cache, b,
                                     CorrectedInPlace(wm_layer.v.cache[b], layer, "v")),
                                 size |-> wm_layer.v.size]]]
       ELSE [single |-> [k |-> [cache |-> << k_cache_padded >>, size |-> size],
                         v |-> [cache |-> << v_cache_padded >>, size |-> size]],
             wm |-> wm_layer]

\* Internal node, one layer of batch item b.
InternalLayer(wm_layer, layer, b, size_list_current) ==
    LET current_max_context_length == SeqMax(size_list_current)
        trim_size == current_max_context_length - size_list_current[b]
        k_cache_padded == TrimFrontPadEnd(wm_layer.k.cache[b], trim_size)
        v_cache_padded == TrimFrontPadEnd(wm_layer.v.cache[b], trim_size)
        size == size_list_current[b]
    IN IF size >= context_length - 1
       THEN [single |-> [k |-> [cache |-> << ShrinkWindow(k_cache_padded, layer, "k") >>,
                                size |-> context_length - 3],
                         v |-> [cache |-> << ShrinkWindow(v_cache_padded, layer, "v") >>,
                                size |-> context_length - 3]],
             wm |-> IF trim_size > 0 THEN wm_layer
                    ELSE [k |-> [cache |-> ReplaceItem(wm_layer.k.cache, b,
                                     CorrectedInPlace(wm_layer.k.cache[b], layer, "k")),
                                 size |-> wm_layer.k.size],
                          v |-> [cache |-> ReplaceItem(wm_layer.v.cache, b,
                                     CorrectedInPlace(wm_layer.v.cache[b], layer, "v")),
                                 size |-> wm_layer.v.size]]]
       ELSE [single |-> [k |-> [cache |-> << k_cache_padded >>, size |-> size],
                         v |-> [cache |-> << v_cache_padded >>, size |-> size]],
             wm |-> wm_layer]

\* An entry of store_log: a store into a pool (the slot index returned, the
\* hash it was recorded under, the context stored) or the clearing of an index.
Event(pool, env, index, key, src) ==
    [pool |-> pool, env |-> env, index |-> index, key |-> key, src |-> src]
ClearEvent(pool) == Event(pool, -1, -1, None, None)

\* The cache state update_cache_context works on.
CacheState ==
    [wm |-> keys_values_wm,
     single |-> keys_values_wm_single_env,
     pool_init |-> shared_pool_init_infer,
     index_init |-> shared_pool_index_init_envs,
     dict_init |-> past_kv_cache_init_infer_envs,
     pool_recur |-> shared_pool_recur_infer,
     index_recur |-> shared_pool_index,
     dict_recur |-> past_kv_cache_recurrent_infer,
     log |-> store_log]

\* Variant: the pool keeps the single-environment cache itself, which the
\* next iteration goes on writing to.
UpdateItem_StoresReference(s, latent, i, is_init_infer, size_list_current) ==
    LET cache_key == hash_state(latent[i + 1])
        per_layer == [l \in Layers |->
                        IF is_init_infer
                        THEN RootLayer(s.wm[l], l, i + 1)
                        ELSE InternalLayer(s.wm[l], l, i + 1, size_list_current)]
        single == [l \in 1..Len(s.single) |->
                     IF l \in Layers THEN per_layer[l].single ELSE s.single[l]]
        wm == [l \in 1..Len(s.wm) |->
                 IF l \in Layers THEN per_layer[l].wm ELSE s.wm[l]]
        shared == Len(s.log) > Len(store_log)
        prev == s.log[Len(s.log)]
        pool_init == IF shared
                     THEN [s.pool_init EXCEPT ![prev.env][prev.index + 1] = single]
                     ELSE s.pool_init
        pool_recur == IF shared
                      THEN [s.pool_recur EXCEPT ![prev.index + 1] = single]
                      ELSE s.pool_recur
    IN IF is_init_infer
       THEN LET r == custom_copy_kv_cache_to_shared_init_envs(
                        pool_init, s.index_init, single, i)
            IN [s EXCEPT !.wm = wm, !.single = single,
                         !.pool_init = r.pool, !.index_init = r.cursor,
                         !.dict_init = [s.dict_init EXCEPT ![i] =
                                          DictPut(s.dict_init[i], cache_key, r.index)],
                         !.log = Append(s.log,
                                    Event("init", i, r.index, cache_key, single))]
       ELSE LET r == custom_copy_kv_cache_to_shared_recur(
                        pool_recur, s.index_recur, single)
            IN [s EXCEPT !.wm = wm, !.single = single,
                         !.pool_recur = r.pool, !.index_recur = r.cursor,
                         !.dict_recur = DictPut(s.dict_recur, cache_key, r.index),
                         !.log = Append(s.log,
                                    Event("recur", -1, r.index, cache_key, single))]

\* Variant: the init pools of all environments share one write cursor.
UpdateItem_OneInitCursor(s, latent, i, is_init_infer, size_list_current) ==
    LET cache_key == hash_state(latent[i + 1])
        per_layer == [l \in Layers |->
                        IF is_init_infer
                        THEN RootLayer(s.wm[l], l, i + 1)
                        ELSE InternalLayer(s.wm[l], l, i + 1, size_list_current)]
        single == [l \in 1..Len(s.single) |->
                     IF l \in Layers THEN per_layer[l].single ELSE s.single[l]]
        wm == [l \in 1..Len(s.wm) |->
                 IF l \in Layers THEN per_layer[l].wm ELSE s.wm[l]]
    IN IF is_init_infer
       THEN LET r == custom_copy_kv_cache_to_shared_init_envs(
                        s.pool_init, s.index_init, single, i)
            IN [s EXCEPT !.wm = wm, !.single = single,
                         !.pool_init = r.pool,
                         !.index_init = [e \in Envs |-> r.cursor[i]],
                         !.dict_init = [s.dict_init EXCEPT ![i] =
                                          DictPut(s.dict_init[i], cache_key, r.index)],
                         !.log = Append(s.log,
                                    Event("init", i, r.index, cache_key, single))]
       ELSE LET r == custom_copy_kv_cache_to_shared_recur(
                        s.pool_recur, s.index_recur, single)
            IN [s EXCEPT !.wm = wm, !.single = single,
                         !.pool_recur = r.pool, !.index_recur = r.cursor,
                         !.dict_recur = DictPut(s.dict_recur, cache_key, r.index),
                         !.log = Append(s.log,
                                    Event("recur", -1, r.index, cache_key, single))]

\* One iteration of the loop over the batch: item i (0-based).
UpdateItem(s, latent, i, is_init_infer, size_list_current) ==
    LET cache_key == hash_state(latent[i + 1])
        per_layer == [l \in Layers |->
                        IF is_init_infer
                        THEN RootLayer(s.wm[l], l, i + 1)
                        ELSE InternalLayer(s.wm[l], l, i + 1, size_list_current)]
        single == [l \in 1..Len(s.single) |->
                     IF l \in Layers THEN per_layer[l].single ELSE s.single[l]]
        wm == [l \in 1..Len(s.wm) |->
                 IF l \in Layers THEN per_layer[l].wm ELSE s.wm[l]]
    IN IF is_init_infer
       THEN LET r == custom_copy_kv_cache_to_shared_init_envs(
                        s.pool_init, s.index_init, single, i)
            IN [s EXCEPT !.wm = wm, !.single = single,
                         !.pool_init = r.pool, !.index_init = r.cursor,
                         !.dict_init = [s.dict_init EXCEPT ![i] =
                                          DictPut(s.dict_init[i], cache_key, r.index)],
                         !.log = Append(s.log,
                                    Event("init", i, r.index, cache_key, single))]
       ELSE LET r == custom_copy_kv_cache_to_shared_recur(
                        s.pool_recur, s.index_recur, single)
            IN [s EXCEPT !.wm = wm, !.single = single,
                         !.pool_recur = r.pool, !.index_recur = r.cursor,
                         !.dict_recur = DictPut(s.dict_recur, cache_key, r.index),
                         !.log = Append(s.log,
                                    Event("recur", -1, r.index, cache_key, single))]

RECURSIVE UpdateLoop(_, _, _, _, _)
UpdateLoop(s, latent, i, is_init_infer, size_list_current) ==
    IF i >= Len(latent) THEN s
    ELSE UpdateLoop(UpdateItem(s, latent, i, is_init_infer, size_list_current),
                    latent, i + 1, is_init_infer, size_list_current)

update_cache_context(s, latent, is_init_infer, size_list_current) ==
    IF context_length <= 2 THEN s
    ELSE UpdateLoop(s, latent, 0, is_init_infer, size_list_current)

(***************************************************************************)
(* Batch assembly.  An entry of keys_values_wm_list is a reference: to a   *)
(* slot of the scratch pool (slot >= 0) or to a context generated for a    *)
(* miss (slot = -1, kv the context).                                       *)
(***************************************************************************)
WmRef(slot) == [slot |-> slot, kv |-> None]
FreshRef(kv) == [slot |-> -1, kv |-> kv]
Deref(entry, pool_wm) ==
    IF entry.slot >= 0 THEN pool_wm[entry.slot + 1] ELSE entry.kv
DerefList(list, pool_wm) == [idx \in 1..Len(list) |-> Deref(list[idx], pool_wm)]

\* generate_empty_keys_values(n=1) followed by the forward pass over the
\* latent state itself (is_init_infer=True): a context of size 1
GenerateForMiss(z) ==
    forward(generate_empty_keys_values(1), << ObsEmbedding(z) >>, TRUE, << >>)

\* The state the two lookup loops work on.
AssemblyState ==
    [pool_wm |-> shared_pool_wm,
     index_wm |-> shared_pool_index_wm,
     list |-> << >>,
     sizes |-> << >>,
     single |-> keys_values_wm_single_env,
     hits |-> 0,
     queries |-> 0]

AppendMatched(r, matched_value) ==
    LET c == custom_copy_kv_cache_to_shared_wm(r.pool_wm, r.index_wm, matched_value)
    IN [r EXCEPT !.pool_wm = c.pool, !.index_wm = c.cursor,
                 !.list = Append(r.list, WmRef(c.slot)),
                 !.sizes = Append(r.sizes, KVSize(matched_value)),
                 !.hits = r.hits + 1, !.queries = r.queries + 1]

AppendGenerated(r, z) ==
    LET fresh == GenerateForMiss(z)
    IN [r EXCEPT !.single = fresh,
                 !.list = Append(r.list, FreshRef(fresh)),
                 !.sizes = Append(r.sizes, 1),
                 !.queries = r.queries + 1]

\* Variant: the indices are consulted whatever reanalyze_phase is.
MatchedValue_IgnoresPhase(z, index) ==
    LET cache_key == hash_state(z)
        init_dict == past_kv_cache_init_infer_envs[index]
        from_init == IF DictHas(init_dict, cache_key)
                     THEN shared_pool_init_infer[index][init_dict[cache_key] + 1]
                     ELSE None
        recur_dict == past_kv_cache_recurrent_infer
        from_recur == IF DictHas(recur_dict, cache_key)
                         /\ 0 <= recur_dict[cache_key]
                         /\ recur_dict[cache_key] < Len(shared_pool_recur_infer)
                      THEN shared_pool_recur_infer[recur_dict[cache_key] + 1]
                      ELSE None
    IN IF from_init # None THEN from_init ELSE from_recur

\* Variant: the shared recurrent index is consulted before the init index.
MatchedValue_RecurrentFirst(z, index) ==
    LET cache_key == hash_state(z)
        init_dict == past_kv_cache_init_infer_envs[index]
        from_init == IF DictHas(init_dict, cache_key)
                     THEN shared_pool_init_infer[index][init_dict[cache_key] + 1]
                     ELSE None
        recur_dict == past_kv_cache_recurrent_infer
        from_recur == IF DictHas(recur_dict, cache_key)
                      THEN shared_pool_recur_infer[recur_dict[cache_key] + 1]
                      ELSE None
    IN IF reanalyze_phase THEN None
       ELSE IF from_recur # None THEN from_recur
       ELSE from_init

\* retrieve_or_generate_kvcache, the lookup of one batch item: the matched
\* pool context, or None
MatchedValue(z, index) ==
    LET cache_key == hash_state(z)
        init_dict == past_kv_cache_init_infer_envs[index]
        from_init == IF DictHas(init_dict, cache_key)
                     THEN shared_pool_init_infer[index][init_dict[cache_key] + 1]
                     ELSE None
        recur_dict == past_kv_cache_recurrent_infer
        from_recur == IF DictHas(recur_dict, cache_key)
                         /\ 0 <= recur_dict[cache_key]
                         /\ recur_dict[cache_key] < Len(shared_pool_recur_infer)
                      THEN shared_pool_recur_infer[recur_dict[cache_key] + 1]
                      ELSE None
    IN IF reanalyze_phase THEN None
       ELSE IF from_init # None THEN from_init
       ELSE from_recur

RECURSIVE RetrieveLoop(_, _, _)
RetrieveLoop(r, latent, index) ==
    IF index >= Len(latent) THEN r
    ELSE LET matched_value == MatchedValue(latent[index + 1], index)
         IN RetrieveLoop(IF matched_value # None
                         THEN AppendMatched(r, matched_value)
                         ELSE AppendGenerated(r, latent[index + 1]),
                         latent, index + 1)

retrieve_or_generate_kvcache(latent, ready_env_num) ==
    RetrieveLoop(AssemblyState, SubSeq(latent, 1, ready_env_num), 0)

\* wm_forward_for_initial_infererence, continuing an episode: the lookup of
\* one environment in its own init index
\* Variant: the lookup is skipped once root_hit_cnt has reached CounterShift.
RootMatchedValue_CountGated(z, i) ==
    LET cache_key == hash_state(z)
        init_dict == past_kv_cache_init_infer_envs[i]
    IN IF DictHas(init_dict, cache_key) /\ root_hit_cnt < CounterShift
       THEN shared_pool_init_infer[i][init_dict[cache_key] + 1]
       ELSE None

RootMatchedValue(z, i) ==
    LET cache_key == hash_state(z)
        init_dict == past_kv_cache_init_infer_envs[i]
    IN IF DictHas(init_dict, cache_key)
       THEN shared_pool_init_infer[i][init_dict[cache_key] + 1]
       ELSE None

RECURSIVE RootRetrieveLoop(_, _, _)
RootRetrieveLoop(r, last_obs, i) ==
    IF i >= Len(last_obs) THEN r
    ELSE LET matched_value == RootMatchedValue(last_obs[i + 1], i)
         IN RootRetrieveLoop(IF matched_value # None
                             THEN AppendMatched(r, matched_value)
                             ELSE AppendGenerated(r, last_obs[i + 1]),
                             last_obs, i + 1)

(***************************************************************************)
(* The driver's entry points.  Each action is one whole call.              *)
(***************************************************************************)
Call(op, states, actions, outputs) ==
    [op |-> op, states |-> states, actions |-> actions, outputs |-> outputs]

\* The two forward passes of a step (action token, then observation token)
\* on the batched working cache; `ok` is FALSE when an append would exceed
\* the cache's capacity.
TwoForwards(wm, action, obs, is_init_infer, sizes) ==
    IF KVSize(wm) + 2 > Len(wm[1].k.cache[1])
    THEN [ok |-> FALSE, wm |-> wm, sizes |-> sizes]
    ELSE LET sizes1 == [b \in 1..Len(sizes) |-> sizes[b] + 1]
             sizes2 == [b \in 1..Len(sizes) |-> sizes[b] + 2]
             wm1 == forward(wm, [b \in 1..Len(action) |-> ActEmbedding(action[b])],
                            is_init_infer, sizes)
             wm2 == forward(wm1, [b \in 1..Len(obs) |-> ObsEmbedding(obs[b])],
                            is_init_infer, sizes1)
         IN [ok |-> TRUE, wm |-> wm2, sizes |-> sizes2]

Store(s) ==
    /\ keys_values_wm' = s.wm
    /\ keys_values_wm_single_env' = s.single
    /\ shared_pool_init_infer' = s.pool_init
    /\ shared_pool_index_init_envs' = s.index_init
    /\ past_kv_cache_init_infer_envs' = s.dict_init
    /\ shared_pool_recur_infer' = s.pool_recur
    /\ shared_pool_index' = s.index_recur

\* No two-run comparison is made.
NoTwin == [script |-> << >>, run |-> 0, snapshot |-> << >>]

Config == << context_length, rotary_emb, empty_fill, reanalyze_phase, twin >>

\* Variant: the first step returns without emptying the recurrent index.
InitialInferenceFirstStep_KeepsRecurrent(n, current_obs) ==
    /\ pc = "idle" /\ error = "none"
    /\ LET wm0 == generate_empty_keys_values(n)
           wm1 == forward(wm0, [b \in 1..n |-> ObsEmbedding(current_obs[b])],
                          TRUE, << >>)
           s == update_cache_context([CacheState EXCEPT !.wm = wm1],
                                     current_obs, TRUE,
                                     keys_values_wm_size_list_current)
       IN /\ Store(s)
          /\ store_log' = Append(s.log, ClearEvent("clear_recur"))
    /\ latent_state' = current_obs
    /\ last_call' = Call("initial_first", << >>, [b \in 1..n |-> -1], current_obs)
    /\ calls' = calls + 1
    /\ simulation_index' = 0
    /\ UNCHANGED << Config, shared_pool_wm, shared_pool_index_wm,
                    past_kv_cache_recurrent_infer,
                    keys_values_wm_list, keys_values_wm_size_list,
                    keys_values_wm_size_list_current,
                    hit_count, total_query_count, root_hit_cnt,
                    root_total_query_cnt, error, pc >>

\* Variant: the first step makes no update_cache_context call.
InitialInferenceFirstStep_NoStore(n, current_obs) ==
    /\ pc = "idle" /\ error = "none"
    /\ LET wm0 == generate_empty_keys_values(n)
           wm1 == forward(wm0, [b \in 1..n |-> ObsEmbedding(current_obs[b])],
                          TRUE, << >>)
           s == [CacheState EXCEPT !.wm = wm1]
       IN /\ Store(s)
          /\ store_log' = Append(s.log, ClearEvent("clear_recur"))
    /\ past_kv_cache_recurrent_infer' = EmptyDict
    /\ latent_state' = current_obs
    /\ last_call' = Call("initial_first", << >>, [b \in 1..n |-> -1], current_obs)
    /\ calls' = calls + 1
    /\ simulation_index' = 0
    /\ UNCHANGED << Config, shared_pool_wm, shared_pool_index_wm,
                    keys_values_wm_list, keys_values_wm_size_list,
                    keys_values_wm_size_list_current,
                    hit_count, total_query_count, root_hit_cnt,
                    root_total_query_cnt, error, pc >>

\* forward_initial_inference, first step of an episode: every action is -1
InitialInferenceFirstStep(n, current_obs) ==
    /\ pc = "idle" /\ error = "none"
    /\ LET wm0 == generate_empty_keys_values(n)
           wm1 == forward(wm0, [b \in 1..n |-> ObsEmbedding(current_obs[b])],
                          TRUE, << >>)
           s == update_cache_context([CacheState EXCEPT !.wm = wm1],
                                     current_obs, TRUE,
                                     keys_values_wm_size_list_current)
       IN /\ Store(s)
          /\ store_log' = Append(s.log, ClearEvent("clear_recur"))
    /\ past_kv_cache_recurrent_infer' = EmptyDict
    /\ latent_state' = current_obs
    /\ last_call' = Call("initial_first", << >>, [b \in 1..n |-> -1], current_obs)
    /\ calls' = calls + 1
    /\ simulation_index' = 0
    /\ UNCHANGED << Config, shared_pool_wm, shared_pool_index_wm,
                    keys_values_wm_list, keys_values_wm_size_list,
                    keys_values_wm_size_list_current,
                    hit_count, total_query_count, root_hit_cnt,
                    root_total_query_cnt, error, pc >>

\* forward_initial_inference, continuing an episode: every action is valid
InitialInferenceContinue(n, last_obs, batch_action, current_obs) ==
    /\ pc = "idle" /\ error = "none"
    /\ \E r \in {RootRetrieveLoop(AssemblyState, last_obs, 0)} :
       \E tp \in {trim_and_pad_kv_cache(DerefList(r.list, r.pool_wm), r.sizes,
                                       keys_values_wm)} :
       \E f \in {TwoForwards(tp.wm, batch_action, current_obs, TRUE, tp.sizes)} :
       \E s \in {IF f.ok
                THEN update_cache_context(
                        [CacheState EXCEPT !.wm = f.wm, !.single = r.single],
                        current_obs, TRUE, tp.sizes)
                ELSE [CacheState EXCEPT !.wm = f.wm, !.single = r.single]} :
          /\ Store(s)
          /\ shared_pool_wm' = r.pool_wm
          /\ shared_pool_index_wm' = r.index_wm
          /\ keys_values_wm_list' = r.list
          /\ keys_values_wm_size_list' = r.sizes
          /\ keys_values_wm_size_list_current' = tp.sizes
          /\ root_hit_cnt' = root_hit_cnt + r.hits
          /\ root_total_query_cnt' = root_total_query_cnt + r.queries
          /\ error' = IF f.ok THEN "none" ELSE "CapacityExceeded"
          /\ past_kv_cache_recurrent_infer' =
                 IF f.ok THEN EmptyDict ELSE past_kv_cache_recurrent_infer
          /\ store_log' = IF f.ok THEN Append(s.log, ClearEvent("clear_recur"))
                          ELSE s.log
    /\ latent_state' = current_obs
    /\ last_call' = Call("initial_continue", last_obs, batch_action, current_obs)
    /\ calls' = calls + 1
    /\ simulation_index' = 0
    /\ UNCHANGED << Config, hit_count, total_query_count, pc >>

\* forward_initial_inference without current_obs (target computation in the
\* train and reanalyze phases): one forward pass without any cache
InitialInferenceTrain(obs, batch_action) ==
    /\ pc = "idle" /\ error = "none"
    /\ latent_state' = obs
    /\ last_call' = Call("initial_train", obs, batch_action, obs)
    /\ past_kv_cache_recurrent_infer' = EmptyDict
    /\ store_log' = Append(store_log, ClearEvent("clear_recur"))
    /\ calls' = calls + 1
    /\ simulation_index' = 0
    /\ UNCHANGED << Config, shared_pool_recur_infer, shared_pool_index,
                    shared_pool_init_infer, shared_pool_index_init_envs,
                    shared_pool_wm, shared_pool_index_wm,
                    past_kv_cache_init_infer_envs,
                    keys_values_wm_list, keys_values_wm_size_list,
                    keys_values_wm_size_list_current,
                    keys_values_wm, keys_values_wm_single_env,
                    hit_count, total_query_count, root_hit_cnt,
                    root_total_query_cnt, error, pc >>

\* forward_recurrent_inference.  next_latent is the observation the model
\* predicts in the action-token pass; it is the token of the second pass
\* and the new self.latent_state (del self.latent_state needs one to exist).
RecurrentInference(n, latest_state, action, next_latent) ==
    /\ pc = "idle" /\ error = "none"
    /\ latent_state # None
    /\ \E r \in {retrieve_or_generate_kvcache(latest_state, n)} :
       \E tp \in {trim_and_pad_kv_cache(DerefList(r.list, r.pool_wm), r.sizes,
                                       keys_values_wm)} :
       \E f \in {TwoForwards(tp.wm, action, next_latent, FALSE, tp.sizes)} :
       \E s \in {IF f.ok
                THEN update_cache_context(
                        [CacheState EXCEPT !.wm = f.wm, !.single = r.single],
                        next_latent, FALSE, f.sizes)
                ELSE [CacheState EXCEPT !.wm = f.wm, !.single = r.single]} :
          /\ Store(s)
          /\ past_kv_cache_recurrent_infer' = s.dict_recur
          /\ store_log' = s.log
          /\ shared_pool_wm' = r.pool_wm
          /\ shared_pool_index_wm' = r.index_wm
          /\ keys_values_wm_list' = r.list
          /\ keys_values_wm_size_list' = tp.sizes
          /\ keys_values_wm_size_list_current' = f.sizes
          /\ hit_count' = hit_count + r.hits
          /\ total_query_count' = total_query_count + r.queries
          /\ error' = IF f.ok THEN "none" ELSE "CapacityExceeded"
          /\ latent_state' = IF f.ok THEN next_latent ELSE latent_state
    /\ last_call' = Call("recurrent", latest_state, action, next_latent)
    /\ calls' = calls + 1
    /\ simulation_index' = simulation_index + 1
    /\ UNCHANGED << Config, root_hit_cnt, root_total_query_cnt, pc >>

\* Variant: clear_caches also rewinds the write cursors of the pools.
ClearCaches_RewindsCursors ==
    /\ pc = "idle" /\ error = "none"
    /\ past_kv_cache_init_infer_envs' = [e \in Envs |-> EmptyDict]
    /\ past_kv_cache_recurrent_infer' = EmptyDict
    /\ keys_values_wm_list' = << >>
    /\ shared_pool_index' = 0
    /\ shared_pool_index_init_envs' = [e \in Envs |-> 0]
    /\ shared_pool_index_wm' = 0
    /\ store_log' = Append(Append(store_log, ClearEvent("clear_init")),
                           ClearEvent("clear_recur"))
    /\ last_call' = Call("clear", << >>, << >>, << >>)
    /\ calls' = calls + 1
    /\ UNCHANGED << Config, shared_pool_recur_infer,
                    shared_pool_init_infer, shared_pool_wm,
                    keys_values_wm_size_list, keys_values_wm_size_list_current,
                    keys_values_wm, keys_values_wm_single_env, latent_state,
                    hit_count, total_query_count, root_hit_cnt,
                    root_total_query_cnt, error, pc, simulation_index >>

\* clear_caches
\* Variant: the per-environment init indices are left as they are.
ClearCaches_KeepsInitIndex ==
    /\ pc = "idle" /\ error = "none"
    /\ past_kv_cache_recurrent_infer' = EmptyDict
    /\ keys_values_wm_list' = << >>
    /\ store_log' = Append(Append(store_log, ClearEvent("clear_init")),
                           ClearEvent("clear_recur"))
    /\ last_call' = Call("clear", << >>, << >>, << >>)
    /\ calls' = calls + 1
    /\ UNCHANGED << Config, shared_pool_recur_infer, shared_pool_index,
                    shared_pool_init_infer, shared_pool_index_init_envs,
                    shared_pool_wm, shared_pool_index_wm,
                    past_kv_cache_init_infer_envs,
                    keys_values_wm_size_list, keys_values_wm_size_list_current,
                    keys_values_wm, keys_values_wm_single_env, latent_state,
                    hit_count, total_query_count, root_hit_cnt,
                    root_total_query_cnt, error, pc, simulation_index >>

ClearCaches ==
    /\ pc = "idle" /\ error = "none"
    /\ past_kv_cache_init_infer_envs' = [e \in Envs |-> EmptyDict]
    /\ past_kv_cache_recurrent_infer' = EmptyDict
    /\ keys_values_wm_list' = << >>
    /\ store_log' = Append(Append(store_log, ClearEvent("clear_init")),
                           ClearEvent("clear_recur"))
    /\ last_call' = Call("clear", << >>, << >>, << >>)
    /\ calls' = calls + 1
    /\ UNCHANGED << Config, shared_pool_recur_infer, shared_pool_index,
                    shared_pool_init_infer, shared_pool_index_init_envs,
                    shared_pool_wm, shared_pool_index_wm,
                    keys_values_wm_size_list, keys_values_wm_size_list_current,
                    keys_values_wm, keys_values_wm_single_env, latent_state,
                    hit_count, total_query_count, root_hit_cnt,
                    root_total_query_cnt, error, pc, simulation_index >>

(***************************************************************************)
(* The state after WorldModel.__init__                                     *)
(***************************************************************************)
Constructed ==
    /\ reanalyze_phase = FALSE
    /\ shared_pool_recur_infer = [j \in 1..shared_pool_size |-> None]
    /\ shared_pool_index = 0
    /\ shared_pool_init_infer =
           [e \in Envs |-> [j \in 1..shared_pool_size_init |-> None]]
    /\ shared_pool_index_init_envs = [e \in Envs |-> 0]
    /\ shared_pool_wm = [j \in 1..shared_pool_size_wm |-> None]
    /\ shared_pool_index_wm = 0
    /\ past_kv_cache_recurrent_infer = EmptyDict
    /\ past_kv_cache_init_infer_envs = [e \in Envs |-> EmptyDict]
    /\ keys_values_wm_list = << >>
    /\ keys_values_wm_size_list = << >>
    /\ keys_values_wm_size_list_current = << >>
    /\ keys_values_wm = generate_empty_keys_values(env_num)
    /\ keys_values_wm_single_env = generate_empty_keys_values(1)
    /\ latent_state = None
    /\ hit_count = 0 /\ total_query_count = 0
    /\ root_hit_cnt = 0 /\ root_total_query_cnt = 0
    /\ error = "none"
    /\ last_call = Call("none", << >>, << >>, << >>)
    /\ calls = 0
    /\ simulation_index = 0
    /\ store_log = << >>

(***************************************************************************)
(* Spec: the driver makes up to MaxCalls calls with batches of up to       *)
(* env_num environments and arbitrary latent states.                       *)
(***************************************************************************)
Init ==
    /\ context_length = 4
    /\ rotary_emb = FALSE
    /\ empty_fill \in {0, 9}
    /\ pc = "idle"
    /\ Constructed
    /\ twin = NoTwin

Batch(n, S) == [1..n -> S]

Next ==
    /\ calls < MaxCalls
    /\ \/ \E n \in 1..env_num : \E current_obs \in Batch(n, Latents) :
            InitialInferenceFirstStep(n, current_obs)
       \/ \E n \in 1..env_num :
          \E last_obs \in Batch(n, Latents), batch_action \in Batch(n, Actions),
             current_obs \in Batch(n, Latents) :
            InitialInferenceContinue(n, last_obs, batch_action, current_obs)
       \/ \E obs \in Batch(1, Latents), batch_action \in Batch(1, Actions) :
            InitialInferenceTrain(obs, batch_action)
       \/ \E n \in 1..env_num :
          \E latest_state \in Batch(n, Latents), action \in Batch(n, Actions),
             next_latent \in Batch(n, Latents) :
            RecurrentInference(n, latest_state, action, next_latent)
       \/ ClearCaches

Spec == Init /\ [][Next]_vars

(***************************************************************************)
(* SpecPool: the two store methods called directly, one store per step,    *)
(* with contexts produced by forward passes from an empty context.         *)
(* store_log records, per call, the pool, the source context and the       *)
(* returned slot index.                                                    *)
(***************************************************************************)
MaxStores == 6

RECURSIVE ContextOf(_, _)
\* The width-1 context after forward passes over the given token contents.
ContextOf(contents, m) ==
    IF m = 0 THEN generate_empty_keys_values(1)
    ELSE forward(ContextOf(contents, m - 1), << contents[m] >>, TRUE, << >>)

SampleContexts ==
    { ContextOf(<< ObsEmbedding(1) >>, 1),
      ContextOf(<< ObsEmbedding(1), ActEmbedding(0), ObsEmbedding(2) >>, 3) }

StoreRecur(src_kv) ==
    /\ \E r \in {custom_copy_kv_cache_to_shared_recur(
                    shared_pool_recur_infer, shared_pool_index, src_kv)} :
         /\ shared_pool_recur_infer' = r.pool
         /\ shared_pool_index' = r.cursor
         /\ store_log' = Append(store_log,
                Event("recur", -1, r.index, None, src_kv))
    /\ UNCHANGED << Config, shared_pool_init_infer, shared_pool_index_init_envs,
                    shared_pool_wm, shared_pool_index_wm,
                    past_kv_cache_recurrent_infer, past_kv_cache_init_infer_envs,
                    keys_values_wm_list, keys_values_wm_size_list,
                    keys_values_wm_size_list_current,
                    keys_values_wm, keys_values_wm_single_env, latent_state,
                    hit_count, total_query_count, root_hit_cnt,
                    root_total_query_cnt, error, pc, last_call, calls,
                    simulation_index >>

StoreInit(env_id, src_kv) ==
    /\ \E r \in {custom_copy_kv_cache_to_shared_init_envs(
                    shared_pool_init_infer, shared_pool_index_init_envs,
                    src_kv, env_id)} :
         /\ shared_pool_init_infer' = r.pool
         /\ shared_pool_index_init_envs' = r.cursor
         /\ store_log' = Append(store_log,
                Event("init", env_id, r.index, None, src_kv))
    /\ UNCHANGED << Config, shared_pool_recur_infer, shared_pool_index,
                    shared_pool_wm, shared_pool_index_wm,
                    past_kv_cache_recurrent_infer, past_kv_cache_init_infer_envs,
                    keys_values_wm_list, keys_values_wm_size_list,
                    keys_values_wm_size_list_current,
                    keys_values_wm, keys_values_wm_single_env, latent_state,
                    hit_count, total_query_count, root_hit_cnt,
                    root_total_query_cnt, error, pc, last_call, calls,
                    simulation_index >>

InitPool ==
    /\ context_length = 4
    /\ rotary_emb = FALSE
    /\ empty_fill \in {0, 9}
    /\ pc = "idle"
    /\ Constructed
    /\ twin = NoTwin

NextPool ==
    /\ Len(store_log) < MaxStores
    /\ \/ \E src_kv \in SampleContexts : StoreRecur(src_kv)
       \/ \E env_id \in Envs : \E src_kv \in SampleContexts : StoreInit(env_id, src_kv)

SpecPool == InitPool /\ [][NextPool]_vars

\* The stores logged for one pool, in order.
PoolLog(pool, env_id) ==
    SelectSeq(store_log, LAMBDA e : e.pool = pool /\ e.env = env_id)

\* C1 for one pool of the given capacity, with its cursor and its slots.
RingDiscipline(log, capacity, cursor, slots) ==
    /\ \A k \in 1..Len(log) : log[k].index = (k - 1) % capacity
    /\ cursor = Len(log) % capacity
    /\ \A j \in 0..(capacity - 1) :
         LET writers == { k \in 1..Len(log) : (k - 1) % capacity = j }
         IN IF writers = {} THEN slots[j + 1] = None
            ELSE slots[j + 1] = log[Max(writers)].src
    /\ Len(log) = capacity + 1 =>
         /\ log[capacity + 1].index = log[1].index
         /\ slots[log[1].index + 1] = log[capacity + 1].src
         /\ \A k1, k2 \in 2..capacity :
              k1 # k2 => log[k1].index # log[k2].index
         /\ \A k \in 2..capacity : slots[log[k].index + 1] = log[k].src

\* C1: in the per-environment init pools and in the shared recurrent pool
\* the k-th store writes slot (k-1) mod C, returns that index and leaves
\* the cursor at k mod C; after C+1 stores the last one has overwritten the
\* first in place and the 2nd..C-th still hold their own data.
C1_RingBufferStores ==
    /\ RingDiscipline(PoolLog("recur", -1), shared_pool_size,
                      shared_pool_index, shared_pool_recur_infer)
    /\ \A e \in Envs :
         RingDiscipline(PoolLog("init", e), shared_pool_size_init,
                        shared_pool_index_init_envs[e], shared_pool_init_infer[e])

\* The recurrent pool and an init pool have each taken C+1 stores, the last
\* one of other data than the first.
C1_Witness ==
    /\ LET log == PoolLog("recur", -1)
       IN /\ Len(log) = shared_pool_size + 1
          /\ log[1].src # log[shared_pool_size + 1].src
    /\ \E e \in Envs :
         LET log == PoolLog("init", e)
         IN /\ Len(log) = shared_pool_size_init + 1
            /\ log[1].src # log[shared_pool_size_init + 1].src

(***************************************************************************)
(* SpecEpisode: one environment driven through a longer run of calls, with *)
(* one more latent state than Spec so that three root stores in a row can  *)
(* be recorded under three distinct hashes.                                *)
(***************************************************************************)
MaxEpisodeLatent == 3
MaxEpisodeCalls == 4
EpisodeLatents == 1..MaxEpisodeLatent

InitEpisode ==
    /\ context_length = 6
    /\ rotary_emb = FALSE
    /\ empty_fill \in {0, 9}
    /\ pc = "idle"
    /\ Constructed
    /\ twin = NoTwin

NextEpisode ==
    /\ calls < MaxEpisodeCalls
    /\ \/ \E current_obs \in Batch(1, EpisodeLatents) :
            InitialInferenceFirstStep(1, current_obs)
       \/ \E last_obs \in Batch(1, EpisodeLatents), batch_action \in Batch(1, Actions),
             current_obs \in Batch(1, EpisodeLatents) :
            InitialInferenceContinue(1, last_obs, batch_action, current_obs)
       \/ \E latest_state \in Batch(1, EpisodeLatents), action \in Batch(1, Actions),
             next_latent \in Batch(1, Latents) :
            RecurrentInference(1, latest_state, action, next_latent)
       \/ ClearCaches

SpecEpisode == InitEpisode /\ [][NextEpisode]_vars

\* Position in store_log of the last event of the given kind (0 if none).
LastEvent(kind) ==
    Max({0} \cup { k \in 1..Len(store_log) : store_log[k].pool = kind })

\* The stores into environment e's init pool since its index was last
\* cleared, in order.
InitStoresSinceClear(e) ==
    LET from == LastEvent("clear_init")
    IN SelectSeq(SubSeq(store_log, from + 1, Len(store_log)),
                 LAMBDA ev : ev.pool = "init" /\ ev.env = e)

\* The last three stores into environment e's init pool were recorded under
\* three distinct hashes, the first of them the hash of z.
ThreeStoresThenLookup(e, z) ==
    LET log == InitStoresSinceClear(e)
        m == Len(log)
    IN /\ m >= 3
       /\ log[m - 2].key = hash_state(z)
       /\ log[m - 2].key # log[m - 1].key
       /\ log[m - 2].key # log[m].key
       /\ log[m - 1].key # log[m].key

\* The recurrent-inference call just made looked up z for batch item e.
LookedUp(e, z) ==
    /\ last_call.op = "recurrent"
    /\ error = "none"
    /\ e + 1 <= Len(last_call.states)
    /\ last_call.states[e + 1] = z

\* C2: after A, B, C were stored in an init pool (capacity 2) under three
\* distinct hashes h1, h2, h3 with no clear in between, a lookup by h1
\* still hits and returns the slot that now holds C: size and content of
\* the context it returns are C's.
C2_StaleInitHit ==
    \A e \in Envs : \A z \in EpisodeLatents :
        (LookedUp(e, z) /\ ThreeStoresThenLookup(e, z)) =>
            LET log == InitStoresSinceClear(e)
                A == log[Len(log) - 2]
                C == log[Len(log)]
            IN /\ DictHas(past_kv_cache_init_infer_envs[e], A.key)
               /\ past_kv_cache_init_infer_envs[e][A.key] = C.index
               /\ keys_values_wm_list[e + 1].slot # -1
               /\ keys_values_wm_size_list[e + 1] = KVSize(C.src)
               /\ Deref(keys_values_wm_list[e + 1], shared_pool_wm) = C.src

\* A lookup by h1 after the three stores, where C differs from A in size
\* and in content.
C2_Witness ==
    \E e \in Envs : \E z \in EpisodeLatents :
        /\ LookedUp(e, z)
        /\ ThreeStoresThenLookup(e, z)
        /\ LET log == InitStoresSinceClear(e)
               A == log[Len(log) - 2]
               C == log[Len(log)]
           IN /\ KVSize(A.src) # KVSize(C.src)
              /\ A.src # C.src
              /\ Deref(keys_values_wm_list[e + 1], shared_pool_wm) # A.src

(***************************************************************************)
(* SpecSearch: the driver as MCTS uses the engine.  Each initial inference *)
(* opens a search, and a search makes at most num_simulations recurrent    *)
(* calls, each over at most env_num latent states.                         *)
(***************************************************************************)
MaxSearchCalls == 4

InitSearch ==
    /\ context_length = 4
    /\ rotary_emb = FALSE
    /\ empty_fill \in {0, 9}
    /\ pc = "idle"
    /\ Constructed
    /\ twin = NoTwin

NextSearch ==
    /\ calls < MaxSearchCalls
    /\ \/ \E n \in 1..env_num : \E current_obs \in Batch(n, Latents) :
            InitialInferenceFirstStep(n, current_obs)
       \/ \E n \in 1..env_num :
          \E last_obs \in Batch(n, {1}), batch_action \in Batch(n, Actions),
             current_obs \in Batch(n, {MaxLatent}) :
            InitialInferenceContinue(n, last_obs, batch_action, current_obs)
       \/ \E obs \in Batch(1, {1}), batch_action \in Batch(1, Actions) :
            InitialInferenceTrain(obs, batch_action)
       \/ /\ simulation_index < num_simulations
          /\ \E n \in 1..env_num :
             \E latest_state \in Batch(n, Latents), action \in Batch(n, Actions),
                next_latent \in Batch(n, Latents) :
               RecurrentInference(n, latest_state, action, next_latent)
       \/ ClearCaches

SpecSearch == InitSearch /\ [][NextSearch]_vars

\* Positions in store_log of the stores into the recurrent pool recorded
\* under key since the recurrent index was last cleared.
RecurStoresUnder(key) ==
    { k \in (LastEvent("clear_recur") + 1)..Len(store_log) :
        store_log[k].pool = "recur" /\ store_log[k].key = key }

\* C3: when a search makes at most num_simulations recurrent calls over at
\* most env_num latent states each, every entry h -> j of the shared
\* recurrent index points to a slot that holds exactly the context written
\* by the most recent store recorded under h.
C3_RecurrentEntriesFresh ==
    \A h \in DOMAIN past_kv_cache_recurrent_infer :
        LET j == past_kv_cache_recurrent_infer[h]
            stores == RecurStoresUnder(h)
        IN /\ stores # {}
           /\ store_log[Max(stores)].index = j
           /\ shared_pool_recur_infer[j + 1] = store_log[Max(stores)].src
           /\ KVSize(shared_pool_recur_infer[j + 1]) = KVSize(store_log[Max(stores)].src)

\* The cursor has wrapped: a live entry points to a slot that an earlier
\* search had filled with another context under another hash.
C3_Witness ==
    \E h \in DOMAIN past_kv_cache_recurrent_infer :
      \E k \in 1..LastEvent("clear_recur") :
        /\ store_log[k].pool = "recur"
        /\ store_log[k].index = past_kv_cache_recurrent_infer[h]
        /\ store_log[k].key # h
        /\ store_log[k].src # shared_pool_recur_infer[store_log[k].index + 1]

(***************************************************************************)
(* Claims about the lookup, checked under Spec.                            *)
(***************************************************************************)
\* A step that is one completed forward_recurrent_inference call.
RecurrentStep ==
    /\ calls' = calls + 1
    /\ last_call'.op = "recurrent"
    /\ error' = "none"

\* C4: in recurrent inference the lookup for batch item i takes the context
\* from item i's init pool when its init index has the hash, otherwise from
\* the shared recurrent pool when the recurrent index has it, and otherwise
\* misses and uses a freshly generated context of size 1.
C4_LookupOrder ==
    [][(RecurrentStep /\ ~reanalyze_phase) =>
         \A i \in 0..(Len(last_call'.states) - 1) :
            LET h == hash_state(last_call'.states[i + 1])
                init_dict == past_kv_cache_init_infer_envs[i]
                recur_dict == past_kv_cache_recurrent_infer
                got == Deref(keys_values_wm_list'[i + 1], shared_pool_wm')
            IN IF DictHas(init_dict, h)
               THEN /\ keys_values_wm_list'[i + 1].slot # -1
                    /\ got = shared_pool_init_infer[i][init_dict[h] + 1]
                    /\ keys_values_wm_size_list'[i + 1] = KVSize(got)
               ELSE IF DictHas(recur_dict, h)
               THEN /\ keys_values_wm_list'[i + 1].slot # -1
                    /\ got = shared_pool_recur_infer[recur_dict[h] + 1]
                    /\ keys_values_wm_size_list'[i + 1] = KVSize(got)
               ELSE /\ keys_values_wm_list'[i + 1].slot = -1
                    /\ KVSize(got) = 1
                    /\ keys_values_wm_size_list'[i + 1] = 1
                    /\ got = ContextOf(<< ObsEmbedding(last_call'.states[i + 1]) >>, 1)
    ]_vars

\* A recurrent call has just looked up a hash that was present in the
\* item's init index and in the recurrent index, the two pools holding
\* different contexts for it, and a hash that was present in neither.
C4_Witness ==
    /\ last_call.op = "recurrent"
    /\ error = "none"
    /\ \E i \in 0..(Len(last_call.states) - 1) :
         LET h == hash_state(last_call.states[i + 1])
             before == Len(store_log) - Len(last_call.states)
         IN /\ DictHas(past_kv_cache_init_infer_envs[i], h)
            /\ \E k \in (LastEvent("clear_recur") + 1)..before :
                 /\ store_log[k].pool = "recur"
                 /\ store_log[k].key = h
                 /\ store_log[k].src #
                      shared_pool_init_infer[i][past_kv_cache_init_infer_envs[i][h] + 1]
            /\ Deref(keys_values_wm_list[i + 1], shared_pool_wm) =
                 shared_pool_init_infer[i][past_kv_cache_init_infer_envs[i][h] + 1]
    /\ \E i \in 0..(Len(last_call.states) - 1) :
         keys_values_wm_list[i + 1].slot = -1

\* The call just made looked up a latent state for batch item i and missed.
Missed(i) ==
    /\ last_call.op \in {"recurrent", "initial_continue"}
    /\ error = "none"
    /\ i + 1 <= Len(last_call.states)
    /\ keys_values_wm_list[i + 1].slot = -1

\* The index and the pool the call just made stores item i's context in.
StepIndex(i) ==
    IF last_call.op = "recurrent" THEN past_kv_cache_recurrent_infer
    ELSE past_kv_cache_init_infer_envs[i]
StepPool(i) ==
    IF last_call.op = "recurrent" THEN shared_pool_recur_infer
    ELSE shared_pool_init_infer[i]

\* The store the call just made for batch item i (an initial inference
\* logs the clearing of the recurrent index after its stores).
StepStore(i) ==
    store_log[Len(store_log) - Len(last_call.states) + i + 1
              - (IF last_call.op = "recurrent" THEN 0 ELSE 1)]

\* The lookup of z for batch item i, as the next call of the same kind
\* would make it.
NextLookupHits(z, i) ==
    IF last_call.op = "recurrent" THEN MatchedValue(z, i) # None
    ELSE RootMatchedValue(z, i) # None

\* C5 as stated: after a lookup of z missed, the slot index of the stored
\* context is recorded under hash(z), so that the next lookup of z hits.
C5_Original ==
    \A i \in Envs :
        Missed(i) =>
            /\ DictHas(StepIndex(i), hash_state(last_call.states[i + 1]))
            /\ NextLookupHits(last_call.states[i + 1], i)

\* C5: after a lookup of z missed, a fresh context of size 1 was used, and
\* by the end of the step the context extended by the action and the next
\* latent state z' is stored in a pool slot and a slot index of this step is
\* recorded under hash(z'), not hash(z): the next lookup of z' hits.
C5_MissStoredUnderNextLatent ==
    \A i \in Envs :
        Missed(i) =>
            LET h == hash_state(last_call.outputs[i + 1])
                ev == StepStore(i)
            IN /\ KVSize(Deref(keys_values_wm_list[i + 1], shared_pool_wm)) = 1
               /\ ev.key = h
               /\ ev.pool = (IF last_call.op = "recurrent" THEN "recur" ELSE "init")
               /\ KVSize(ev.src) >= 1
               /\ StepPool(i)[ev.index + 1] = ev.src
               /\ DictHas(StepIndex(i), h)
               /\ \E i2 \in i..(Len(last_call.states) - 1) :
                    /\ StepStore(i2).key = h
                    /\ StepIndex(i)[h] = StepStore(i2).index
                    /\ last_call.op # "recurrent" => i2 = i
               /\ NextLookupHits(last_call.outputs[i + 1], i)

\* A lookup of z missed, the step ended in another latent state z', and
\* hash(z) is in no index the next lookup of z would consult.
C5_Witness ==
    \E i \in Envs :
        /\ Missed(i)
        /\ last_call.outputs[i + 1] # last_call.states[i + 1]
        /\ ~NextLookupHits(last_call.states[i + 1], i)
        /\ NextLookupHits(last_call.outputs[i + 1], i)

(***************************************************************************)
(* Hit equivalence, checked under SpecEpisode.                             *)
(***************************************************************************)
\* The call just made looked up a latent state for batch item i and hit.
Hit(i) ==
    /\ last_call.op \in {"recurrent", "initial_continue"}
    /\ error = "none"
    /\ i + 1 <= Len(last_call.states)
    /\ keys_values_wm_list[i + 1].slot # -1

\* The number of store_log events that precede the call just made.
EventsBeforeStep ==
    Len(store_log) - Len(last_call.states)
        - (IF last_call.op = "recurrent" THEN 0 ELSE 1)

\* Position of the most recent store before the call just made that was
\* recorded under key in environment e's init index (0 if none).
InitRecordedBefore(e, key) ==
    Max({0} \cup { k \in (LastEvent("clear_init") + 1)..EventsBeforeStep :
                     /\ store_log[k].pool = "init"
                     /\ store_log[k].env = e
                     /\ store_log[k].key = key })

\* The same for the shared recurrent index.
RecurRecordedBefore(key) ==
    Max({0} \cup { k \in (LastEvent("clear_recur") + 1)..EventsBeforeStep :
                     /\ store_log[k].pool = "recur"
                     /\ store_log[k].key = key })

\* Position of the store under hash(z) that the lookup for item i found.
RecordedBefore(i) ==
    LET h == hash_state(last_call.states[i + 1])
    IN IF InitRecordedBefore(i, h) # 0 \/ last_call.op # "recurrent"
       THEN InitRecordedBefore(i, h)
       ELSE RecurRecordedBefore(h)

\* Position of the most recent store before the call just made into the
\* slot that store k wrote.
SlotWriterBefore(k) ==
    Max({ k2 \in 1..EventsBeforeStep :
            /\ store_log[k2].pool = store_log[k].pool
            /\ store_log[k2].env = store_log[k].env
            /\ store_log[k2].index = store_log[k].index })

\* The token contents of a width-1 context, read off its valid entries.
Tokens(kv) ==
    [p \in 1..KVSize(kv) |-> (kv[1].k.cache[1][p] \div 100) * 100]

\* The valid entries of a width-1 context.
Entries(kv) ==
    [l \in 1..Len(kv) |->
        [k |-> SubSeq(kv[l].k.cache[1], 1, kv[l].k.size),
         v |-> SubSeq(kv[l].v.cache[1], 1, kv[l].v.size)]]

MaxWindow == 6
MaxAlignSize == 5

\* The tokens of a context of m entries for latent state z.
TokenRun(z, m) ==
    [p \in 1..m |-> IF p % 2 = 1 THEN ObsEmbedding(z) ELSE ActEmbedding(0)]

InitAlign ==
    /\ context_length \in (MaxWindow - 1)..MaxWindow
    /\ rotary_emb \in BOOLEAN
    /\ empty_fill \in {0, 9}
    /\ reanalyze_phase = FALSE
    /\ pc = "assembled"
    /\ \E n \in 1..env_num :
       \E zs \in {[b \in 1..n |-> ((b - 1) % MaxLatent) + 1]} :
       \E ms \in Batch(n, 1..(IF MaxAlignSize < context_length
                              THEN MaxAlignSize ELSE context_length)) :
       \E op \in {"initial_continue", "recurrent"} :
         /\ shared_pool_wm =
               [j \in 1..shared_pool_size_wm |->
                   IF j <= n THEN ContextOf(TokenRun(zs[j], ms[j]), ms[j])
                   ELSE None]
         /\ shared_pool_index_wm = n % shared_pool_size_wm
         /\ keys_values_wm_list = [b \in 1..n |-> WmRef(b - 1)]
         /\ keys_values_wm_size_list = ms
         /\ last_call = Call(op, zs, << >>, << >>)
    /\ shared_pool_recur_infer = [j \in 1..shared_pool_size |-> None]
    /\ shared_pool_index = 0
    /\ shared_pool_init_infer =
           [e \in Envs |-> [j \in 1..shared_pool_size_init |-> None]]
    /\ shared_pool_index_init_envs = [e \in Envs |-> 0]
    /\ past_kv_cache_recurrent_infer = EmptyDict
    /\ past_kv_cache_init_infer_envs = [e \in Envs |-> EmptyDict]
    /\ keys_values_wm_size_list_current = << >>
    /\ keys_values_wm = generate_empty_keys_values(env_num)
    /\ keys_values_wm_single_env = generate_empty_keys_values(1)
    /\ latent_state = None
    /\ hit_count = 0 /\ total_query_count = 0
    /\ root_hit_cnt = 0 /\ root_total_query_cnt = 0
    /\ error = "none"
    /\ calls = 0
    /\ twin = NoTwin
    /\ simulation_index = 0
    /\ store_log = << >>

\* self.keys_values_wm_size_list_current = self.trim_and_pad_kv_cache(...)
AlignStep ==
    /\ pc = "assembled"
    /\ \E tp \in {trim_and_pad_kv_cache(
                     DerefList(keys_values_wm_list, shared_pool_wm),
                     keys_values_wm_size_list, keys_values_wm)} :
         /\ keys_values_wm' = tp.wm
         /\ keys_values_wm_size_list_current' = tp.sizes
    /\ pc' = "aligned"
    /\ UNCHANGED << Config, shared_pool_recur_infer, shared_pool_index,
                    shared_pool_init_infer, shared_pool_index_init_envs,
                    shared_pool_wm, shared_pool_index_wm,
                    past_kv_cache_recurrent_infer, past_kv_cache_init_infer_envs,
                    keys_values_wm_list, keys_values_wm_size_list,
                    keys_values_wm_single_env, latent_state,
                    hit_count, total_query_count, root_hit_cnt,
                    root_total_query_cnt, error, last_call, calls,
                    simulation_index, store_log >>

\* The forward pass over the action token and the one over the observation
\* token; recurrent inference advances the per-item sizes with each.
ForwardStep(action, obs) ==
    /\ pc = "aligned"
    /\ \E f \in {TwoForwards(keys_values_wm, action, obs,
                            last_call.op = "initial_continue",
                            keys_values_wm_size_list_current)} :
         /\ keys_values_wm' = f.wm
         /\ keys_values_wm_size_list_current' =
                IF last_call.op = "recurrent"
                THEN f.sizes ELSE keys_values_wm_size_list_current
         /\ error' = IF f.ok THEN "none" ELSE "CapacityExceeded"
         /\ pc' = IF f.ok THEN "forwarded" ELSE "failed"
         /\ latent_state' = IF f.ok THEN obs ELSE latent_state
    /\ last_call' = [last_call EXCEPT !.actions = action, !.outputs = obs]
    /\ UNCHANGED << Config, shared_pool_recur_infer, shared_pool_index,
                    shared_pool_init_infer, shared_pool_index_init_envs,
                    shared_pool_wm, shared_pool_index_wm,
                    past_kv_cache_recurrent_infer, past_kv_cache_init_infer_envs,
                    keys_values_wm_list, keys_values_wm_size_list,
                    keys_values_wm_single_env,
                    hit_count, total_query_count, root_hit_cnt,
                    root_total_query_cnt, calls, simulation_index, store_log >>

\* self.update_cache_context(self.latent_state, is_init_infer=...)
UpdateStep ==
    /\ pc = "forwarded"
    /\ \E s \in {update_cache_context(CacheState, latent_state,
                                     last_call.op = "initial_continue",
                                     keys_values_wm_size_list_current)} :
         /\ Store(s)
         /\ past_kv_cache_recurrent_infer' = s.dict_recur
         /\ store_log' = s.log
    /\ pc' = "stored"
    /\ UNCHANGED << Config, shared_pool_wm, shared_pool_index_wm,
                    keys_values_wm_list, keys_values_wm_size_list,
                    keys_values_wm_size_list_current, latent_state,
                    hit_count, total_query_count, root_hit_cnt,
                    root_total_query_cnt, error, last_call, calls,
                    simulation_index >>

NextAlign ==
    \/ AlignStep
    \/ \E action \in Batch(Len(keys_values_wm_list), Actions),
          obs \in Batch(Len(keys_values_wm_list), Latents) :
         ForwardStep(action, obs)
    \/ UpdateStep

SpecAlign == InitAlign /\ [][NextAlign]_vars

\* The two buffers (keys, values) of one layer of a context, for batch
\* item b.
Buffers(kv, l, b) == << kv[l].k.cache[b], kv[l].v.cache[b] >>

\* The batch as assembled: item b's own context and its size.
Assembled(b) == Deref(keys_values_wm_list[b], shared_pool_wm)
AssembledMax == SeqMax(keys_values_wm_size_list)

\* C7: after trim-and-pad the batched working cache reports size max on
\* every layer, every item's buffer keeps its full capacity length, the
\* positions [max - s_i, max) of item i's aligned buffer are its original
\* positions [0, s_i) in order and the positions [0, max - s_i) are zero.
C7_TrimAndPad ==
    pc = "aligned" =>
        /\ Len(keys_values_wm) = num_layers
        /\ \A l \in Layers :
             /\ keys_values_wm[l].k.size = AssembledMax
             /\ keys_values_wm[l].v.size = AssembledMax
             /\ Len(keys_values_wm[l].k.cache) = Len(keys_values_wm_list)
             /\ Len(keys_values_wm[l].v.cache) = Len(keys_values_wm_list)
             /\ \A b \in 1..Len(keys_values_wm_list) : \A kind \in 1..2 :
                  LET s_i == keys_values_wm_size_list[b]
                      aligned == Buffers(keys_values_wm, l, b)[kind]
                      original == Buffers(Assembled(b), l, 1)[kind]
                  IN /\ Len(aligned) = context_length
                     /\ Len(original) = context_length
                     /\ \A p \in 0..(s_i - 1) :
                          aligned[AssembledMax - s_i + p + 1] = original[p + 1]
                     /\ \A p \in 0..(AssembledMax - s_i - 1) :
                          aligned[p + 1] = 0

\* An aligned batch of two contexts, one filling its whole capacity and one
\* at least two entries shorter.
C7_Witness ==
    /\ pc = "aligned"
    /\ \E b1, b2 \in 1..Len(keys_values_wm_list) :
         /\ keys_values_wm_size_list[b1] = context_length
         /\ keys_values_wm_size_list[b2] + 2 <= keys_values_wm_size_list[b1]
         /\ Buffers(keys_values_wm, 1, b2)[1] # Buffers(Assembled(b2), 1, 1)[1]

UpdateTaken == pc = "forwarded" /\ pc' = "stored"

\* The size update_cache_context takes batch item b's context to have:
\* the batched cache's size in root mode, the item's own size in
\* internal-node mode.
ItemSize(b) ==
    IF last_call.op = "initial_continue" THEN KVSize(keys_values_wm)
    ELSE keys_values_wm_size_list_current[b]

\* The front padding of item b's row that internal-node mode removes.
ItemPad(b) ==
    IF last_call.op = "initial_continue" THEN 0
    ELSE SeqMax(keys_values_wm_size_list_current)
             - keys_values_wm_size_list_current[b]

\* Position p (from 0) of item b's context before the update.
OldEntry(l, kind, b, p) ==
    Buffers(keys_values_wm, l, b)[kind][ItemPad(b) + p + 1]

\* The context the update stores for item b, and its size on layer l.
Stored(b) == store_log'[Len(store_log) + b].src
StoredSize(b, l, kind) ==
    IF kind = 1 THEN Stored(b)[l].k.size ELSE Stored(b)[l].v.size

\* The layer's positional table (keys, values).
Table(l, kind, p) ==
    IF kind = 1 THEN positional_embedding_k(l, p)
    ELSE positional_embedding_v(l, p)

\* C9: update_cache_context, in root mode and in internal-node mode, stores
\* a context whose size has reached context_length - 1 with size
\* context_length - 3, in a buffer of length context_length that holds the
\* old positions 2..context_length-2 (up to the positional correction) at
\* the new positions 0..context_length-4, then 3 zero positions; a context
\* of smaller size is stored with its size and entries unchanged.
C9_WindowShrink ==
    [][UpdateTaken =>
         \A b \in 1..Len(keys_values_wm_list) : \A l \in Layers : \A kind \in 1..2 :
            LET new == Buffers(Stored(b), l, 1)[kind]
            IN /\ Len(new) = context_length
               /\ IF ItemSize(b) >= context_length - 1
                  THEN /\ StoredSize(b, l, kind) = context_length - 3
                       /\ \A j \in 0..(context_length - 4) :
                            new[j + 1] - (IF rotary_emb THEN 0
                                          ELSE Table(l, kind, j) - Table(l, kind, j + 2))
                                = OldEntry(l, kind, b, j + 2)
                       /\ \A p \in (context_length - 3)..(context_length - 1) :
                            new[p + 1] = 0
                  ELSE /\ StoredSize(b, l, kind) = ItemSize(b)
                       /\ \A p \in 0..(ItemSize(b) - 1) :
                            new[p + 1] = OldEntry(l, kind, b, p)
    ]_vars

\* A recurrent call has stored one context shrunk to context_length - 3 and
\* another, shorter one, at its own size.
C9_Witness ==
    /\ pc = "stored"
    /\ last_call.op = "recurrent"
    /\ \E b1, b2 \in 1..Len(keys_values_wm_list) :
         /\ ItemSize(b1) >= context_length - 1
         /\ KVSize(store_log[b1].src) = context_length - 3
         /\ ItemSize(b2) < context_length - 1
         /\ KVSize(store_log[b2].src) = ItemSize(b2)

\* C10: on shrink without rotary embeddings the entry retained at new
\* position j is the old entry at position j+2 plus P[j] - P[j+2] of the
\* layer's positional table, which is the entry recomputed at position j;
\* with rotary embeddings it is the old entry at position j+2 unchanged.
C10_PositionalCorrection ==
    [][UpdateTaken =>
         \A b \in 1..Len(keys_values_wm_list) : \A l \in Layers : \A kind \in 1..2 :
            ItemSize(b) >= context_length - 1 =>
               \A j \in 0..(context_length - 4) :
                  LET new == Buffers(Stored(b), l, 1)[kind][j + 1]
                      old == OldEntry(l, kind, b, j + 2)
                      c == old - Table(l, kind, j + 2)
                  IN IF rotary_emb
                     THEN new = old
                     ELSE /\ new = old + Table(l, kind, j) - Table(l, kind, j + 2)
                          /\ old = (IF kind = 1 THEN KeyEntry(l, c, j + 2)
                                    ELSE ValueEntry(l, c, j + 2))
                          /\ new = (IF kind = 1 THEN KeyEntry(l, c, j)
                                    ELSE ValueEntry(l, c, j))
    ]_vars

\* A context has been shrunk without rotary embeddings, with a correction
\* other than zero on its first retained key.
C10_Witness ==
    /\ pc = "stored"
    /\ ~rotary_emb
    /\ \E b \in 1..Len(keys_values_wm_list) :
         /\ ItemSize(b) >= context_length - 1
         /\ KVSize(store_log[b].src) = context_length - 3
         /\ Table(1, 1, 0) # Table(1, 1, 2)
         /\ store_log[b].src[1].k.cache[1][1] > 0

(***************************************************************************)
(* SpecWindow: one environment, every window length from 3 up to           *)
(* MaxWindow - 1, the driver passing as last_obs the latent state the      *)
(* previous call ended in.                                                 *)
(***************************************************************************)
MaxWindowCalls == 5

InitWindow ==
    /\ context_length \in 3..(MaxWindow - 1)
    /\ rotary_emb = FALSE
    /\ empty_fill \in {0, 9}
    /\ pc = "idle"
    /\ Constructed
    /\ twin = NoTwin

NextWindow ==
    /\ calls < MaxWindowCalls
    /\ \/ \E current_obs \in Batch(1, Latents) :
            InitialInferenceFirstStep(1, current_obs)
       \/ /\ latent_state # None
          /\ \E batch_action \in Batch(1, Actions), current_obs \in Batch(1, Latents) :
               InitialInferenceContinue(1, latent_state, batch_action, current_obs)
       \/ \E latest_state \in Batch(1, Latents), action \in Batch(1, Actions),
             next_latent \in Batch(1, Latents) :
            RecurrentInference(1, latest_state, action, next_latent)
       \/ ClearCaches

SpecWindow == InitWindow /\ [][NextWindow]_vars

\* The contexts held in the slots of the init pools and of the recurrent
\* pool.
PooledContexts ==
    ({ shared_pool_recur_infer[j] : j \in 1..shared_pool_size }
       \cup UNION { { shared_pool_init_infer[e][j] : j \in 1..shared_pool_size_init } :
                    e \in Envs })
      \ { None }

\* C11: with context_length > 2 no call fails with CapacityExceeded: every
\* pooled context has size at most context_length - 2, every context
\* assembled for a step has at most that size, and the working cache after
\* the step's two appends has size at most context_length.
C11_CapacityNeverExceeded ==
    context_length > 2 =>
        /\ error = "none"
        /\ \A kv \in PooledContexts : KVSize(kv) <= context_length - 2
        /\ \A b \in 1..Len(keys_values_wm_size_list) :
             keys_values_wm_size_list[b] <= context_length - 2
        /\ KVSize(keys_values_wm) <= context_length
        /\ last_call.op \in {"recurrent", "initial_continue"} =>
             KVSize(keys_values_wm) = SeqMax(keys_values_wm_size_list) + 2

\* A step has filled the working cache to its capacity exactly, from a
\* context of the largest size a pool can hold.
C11_Witness ==
    /\ error = "none"
    /\ last_call.op \in {"recurrent", "initial_continue"}
    /\ KVSize(keys_values_wm) = context_length
    /\ \E b \in 1..Len(keys_values_wm_size_list) :
         /\ keys_values_wm_size_list[b] = context_length - 2
         /\ keys_values_wm_list[b].slot # -1

\* A store into environment e's init pool under key is logged after the
\* last clearing of the init indices.
InitRecordedSinceClear(e, key) ==
    \E k \in (LastEvent("clear_init") + 1)..Len(store_log) :
        /\ store_log[k].pool = "init"
        /\ store_log[k].env = e
        /\ store_log[k].key = key

\* The same for the shared recurrent index.
RecurRecordedSinceClear(key) == RecurStoresUnder(key) # {}

\* C12: after clear_caches every init index and the recurrent index are
\* empty and the lookup of any latent state for any environment misses; a
\* lookup hits only for a hash that a store has recorded since the last
\* clearing.
C12_ClearEmptiesIndices ==
    /\ last_call.op = "clear" =>
         /\ \A e \in Envs : DOMAIN past_kv_cache_init_infer_envs[e] = {}
         /\ DOMAIN past_kv_cache_recurrent_infer = {}
         /\ \A e \in Envs : \A z \in Latents :
              /\ MatchedValue(z, e) = None
              /\ RootMatchedValue(z, e) = None
    /\ \A e \in Envs : \A z \in Latents :
         /\ RootMatchedValue(z, e) # None =>
              InitRecordedSinceClear(e, hash_state(z))
         /\ MatchedValue(z, e) # None =>
              \/ InitRecordedSinceClear(e, hash_state(z))
              \/ RecurRecordedSinceClear(hash_state(z))

\* A lookup has missed on a latent state whose hash had been recorded for
\* that environment before clear_caches, and the step's own store makes a
\* hash hit again.
C12_Witness ==
    \E i \in Envs :
        /\ Missed(i)
        /\ \E k \in 1..LastEvent("clear_init") :
             /\ store_log[k].pool = "init"
             /\ store_log[k].env = i
             /\ store_log[k].key = hash_state(last_call.states[i + 1])
        /\ NextLookupHits(last_call.outputs[i + 1], i)

\* C13 as stated: right after an initial inference on the first
\* observation of a new episode, no hash other than the one this call
\* records hits in the environment's init index.
C13_Original ==
    last_call.op = "initial_first" =>
        \A e \in 0..(Len(last_call.outputs) - 1) : \A z \in Latents :
            RootMatchedValue(z, e) # None => z = last_call.outputs[e + 1]

\* C14: after an initial inference in which every action is -1, for n
\* environments, the working cache is a fresh one of width n holding exactly
\* the observation token, and environment i's init pool holds a context of
\* size 1 whose slot index is recorded under the hash of environment i's
\* current latent state.
C14_FirstStepStoresRoot ==
    (last_call.op = "initial_first" /\ context_length > 2) =>
        LET n == Len(last_call.outputs)
        IN /\ n <= env_num
           /\ KVSize(keys_values_wm) = 1
           /\ \A l \in Layers :
                /\ Len(keys_values_wm[l].k.cache) = n
                /\ \A b \in 1..n :
                     /\ keys_values_wm[l].k.cache[b] =
                          ContextOf(<< ObsEmbedding(last_call.outputs[b]) >>, 1)[l].k.cache[1]
                     /\ keys_values_wm[l].v.cache[b] =
                          ContextOf(<< ObsEmbedding(last_call.outputs[b]) >>, 1)[l].v.cache[1]
           /\ \A i \in 0..(n - 1) :
                LET h == hash_state(last_call.outputs[i + 1])
                    index == past_kv_cache_init_infer_envs[i]
                IN /\ DictHas(index, h)
                   /\ index[h] \in 0..(shared_pool_size_init - 1)
                   /\ index[h] = (shared_pool_index_init_envs[i] - 1) % shared_pool_size_init
                   /\ KVSize(shared_pool_init_infer[i][index[h] + 1]) = 1
                   /\ shared_pool_init_infer[i][index[h] + 1] =
                        ContextOf(<< ObsEmbedding(last_call.outputs[i + 1]) >>, 1)

\* A first step over env_num environments with different latent states,
\* made after a continuing initial inference and a recurrent inference had
\* filled the working cache further.
C14_Witness ==
    /\ last_call.op = "initial_first"
    /\ calls >= 3
    /\ Len(last_call.outputs) = env_num
    /\ last_call.outputs[1] # last_call.outputs[env_num]
    /\ root_total_query_cnt > 0
    /\ total_query_count > 0

(***************************************************************************)
(* forward_recurrent_inference, statement by statement                     *)
(***************************************************************************)
MaxStepCalls == 3

InitSteps ==
    /\ context_length = MaxWindow
    /\ rotary_emb = FALSE
    /\ empty_fill \in {0, 9}
    /\ pc = "idle"
    /\ Constructed
    /\ twin = NoTwin

\* self.keys_values_wm_list = []; self.keys_values_wm_size_list = []
BeginRecurrent(n, latest_state, action) ==
    /\ pc \in {"idle", "stored"} /\ error = "none"
    /\ latent_state # None
    /\ keys_values_wm_list' = << >>
    /\ keys_values_wm_size_list' = << >>
    /\ last_call' = Call("recurrent", latest_state, action, << >>)
    /\ calls' = calls + 1
    /\ simulation_index' = simulation_index + 1
    /\ pc' = "retrieving"
    /\ UNCHANGED << Config, shared_pool_recur_infer, shared_pool_index,
                    shared_pool_init_infer, shared_pool_index_init_envs,
                    shared_pool_wm, shared_pool_index_wm,
                    past_kv_cache_recurrent_infer, past_kv_cache_init_infer_envs,
                    keys_values_wm_size_list_current,
                    keys_values_wm, keys_values_wm_single_env, latent_state,
                    hit_count, total_query_count, root_hit_cnt,
                    root_total_query_cnt, error, store_log >>

\* The lookup state of retrieve_or_generate_kvcache after the items
\* handled so far.
AssemblySoFar ==
    [AssemblyState EXCEPT !.list = keys_values_wm_list,
                          !.sizes = keys_values_wm_size_list]

\* Variant: the loop is left after its first iteration.
RetrieveStep_EndsEarly ==
    /\ pc = "retrieving"
    /\ \E index \in {Len(keys_values_wm_list)} :
       \E matched_value \in {MatchedValue(last_call.states[index + 1], index)} :
       \E r \in {IF matched_value # None
                THEN AppendMatched(AssemblySoFar, matched_value)
                ELSE AppendGenerated(AssemblySoFar,
                                     last_call.states[index + 1])} :
         /\ shared_pool_wm' = r.pool_wm
         /\ shared_pool_index_wm' = r.index_wm
         /\ keys_values_wm_list' = r.list
         /\ keys_values_wm_size_list' = r.sizes
         /\ keys_values_wm_single_env' = r.single
         /\ hit_count' = hit_count + r.hits
         /\ total_query_count' = total_query_count + r.queries
         /\ pc' = "assembled"
    /\ UNCHANGED << Config, shared_pool_recur_infer, shared_pool_index,
                    shared_pool_init_infer, shared_pool_index_init_envs,
                    past_kv_cache_recurrent_infer, past_kv_cache_init_infer_envs,
                    keys_values_wm_size_list_current, keys_values_wm,
                    latent_state, root_hit_cnt, root_total_query_cnt,
                    error, last_call, calls, simulation_index, store_log >>

\* One iteration of the loop of retrieve_or_generate_kvcache, for the item
\* index = len(self.keys_values_wm_list).
RetrieveStep ==
    /\ pc = "retrieving"
    /\ \E index \in {Len(keys_values_wm_list)} :
       \E matched_value \in {MatchedValue(last_call.states[index + 1], index)} :
       \E r \in {IF matched_value # None
                THEN AppendMatched(AssemblySoFar, matched_value)
                ELSE AppendGenerated(AssemblySoFar,
                                     last_call.states[index + 1])} :
         /\ shared_pool_wm' = r.pool_wm
         /\ shared_pool_index_wm' = r.index_wm
         /\ keys_values_wm_list' = r.list
         /\ keys_values_wm_size_list' = r.sizes
         /\ keys_values_wm_single_env' = r.single
         /\ hit_count' = hit_count + r.hits
         /\ total_query_count' = total_query_count + r.queries
         /\ pc' = IF Len(r.list) >= Len(last_call.states)
                  THEN "assembled" ELSE "retrieving"
    /\ UNCHANGED << Config, shared_pool_recur_infer, shared_pool_index,
                    shared_pool_init_infer, shared_pool_index_init_envs,
                    past_kv_cache_recurrent_infer, past_kv_cache_init_infer_envs,
                    keys_values_wm_size_list_current, keys_values_wm,
                    latent_state, root_hit_cnt, root_total_query_cnt,
                    error, last_call, calls, simulation_index, store_log >>

\* k == 0 of the loop: the forward pass over the action token; next_latent
\* is outputs_wm.logits_observations, the token of the pass k == 1.
ForwardActionStep(next_latent) ==
    /\ pc = "aligned"
    /\ IF CanAppend(keys_values_wm)
       THEN /\ keys_values_wm' =
                 forward(keys_values_wm,
                         [b \in 1..Len(last_call.actions) |->
                             ActEmbedding(last_call.actions[b])],
                         FALSE, keys_values_wm_size_list_current)
            /\ keys_values_wm_size_list_current' =
                 [b \in 1..Len(keys_values_wm_size_list_current) |->
                     keys_values_wm_size_list_current[b] + 1]
            /\ last_call' = [last_call EXCEPT !.outputs = next_latent]
            /\ pc' = "forwarded_action"
            /\ error' = error
       ELSE /\ error' = "CapacityExceeded"
            /\ pc' = "failed"
            /\ UNCHANGED << keys_values_wm, keys_values_wm_size_list_current,
                            last_call >>
    /\ UNCHANGED << Config, shared_pool_recur_infer, shared_pool_index,
                    shared_pool_init_infer, shared_pool_index_init_envs,
                    shared_pool_wm, shared_pool_index_wm,
                    past_kv_cache_recurrent_infer, past_kv_cache_init_infer_envs,
                    keys_values_wm_list, keys_values_wm_size_list,
                    keys_values_wm_single_env, latent_state,
                    hit_count, total_query_count, root_hit_cnt,
                    root_total_query_cnt, calls, simulation_index, store_log >>

\* k == 1 of the loop: the forward pass over the observation token, then
\* del self.latent_state; self.latent_state = torch.cat(latent_state_list)
ForwardObsStep ==
    /\ pc = "forwarded_action"
    /\ IF CanAppend(keys_values_wm)
       THEN /\ keys_values_wm' =
                 forward(keys_values_wm,
                         [b \in 1..Len(last_call.outputs) |->
                             ObsEmbedding(last_call.outputs[b])],
                         FALSE, keys_values_wm_size_list_current)
            /\ keys_values_wm_size_list_current' =
                 [b \in 1..Len(keys_values_wm_size_list_current) |->
                     keys_values_wm_size_list_current[b] + 1]
            /\ latent_state' = last_call.outputs
            /\ pc' = "forwarded"
            /\ error' = error
       ELSE /\ error' = "CapacityExceeded"
            /\ pc' = "failed"
            /\ UNCHANGED << keys_values_wm, keys_values_wm_size_list_current,
                            latent_state >>
    /\ UNCHANGED << Config, shared_pool_recur_infer, shared_pool_index,
                    shared_pool_init_infer, shared_pool_index_init_envs,
                    shared_pool_wm, shared_pool_index_wm,
                    past_kv_cache_recurrent_infer, past_kv_cache_init_infer_envs,
                    keys_values_wm_list, keys_values_wm_size_list,
                    keys_values_wm_single_env,
                    hit_count, total_query_count, root_hit_cnt,
                    root_total_query_cnt, last_call, calls, simulation_index,
                    store_log >>

NextSteps ==
    \/ /\ calls = 0
       /\ \E n \in 1..env_num : \E current_obs \in Batch(n, Latents) :
            InitialInferenceFirstStep(n, current_obs)
    \/ /\ calls < MaxStepCalls
       /\ \E n \in 1..env_num :
          \E latest_state \in Batch(n, Latents), action \in Batch(n, Actions) :
            BeginRecurrent(n, latest_state, action)
    \/ RetrieveStep
    \/ AlignStep
    \/ \E next_latent \in Batch(Len(keys_values_wm_list), Latents) :
         ForwardActionStep(next_latent)
    \/ ForwardObsStep
    \/ UpdateStep

SpecSteps == InitSteps /\ [][NextSteps]_vars

\* The statement of forward_recurrent_inference a step executes.
Enters(phase) == pc # phase /\ pc' = phase
BatchSize == Len(last_call.states)

\* C15: within one recurrent-inference step the lookups of all batch items
\* are made and appended to the batch list before trim-and-pad starts,
\* trim-and-pad is done before the forward pass over the action token, that
\* pass precedes the one over the observation token, and the per-item
\* stores are made only after both passes.
C15_PhaseOrder ==
    [][/\ keys_values_wm_list' # keys_values_wm_list =>
             pc \in {"idle", "stored", "retrieving"}
       /\ Enters("aligned") =>
             /\ pc = "assembled"
             /\ Len(keys_values_wm_list) = BatchSize
             /\ Len(keys_values_wm_size_list) = BatchSize
             /\ KVSize(keys_values_wm') = SeqMax(keys_values_wm_size_list)
       /\ Enters("forwarded_action") =>
             /\ pc = "aligned"
             /\ KVSize(keys_values_wm) = SeqMax(keys_values_wm_size_list)
             /\ KVSize(keys_values_wm') = SeqMax(keys_values_wm_size_list) + 1
             /\ \A b \in 1..BatchSize :
                  keys_values_wm'[1].k.cache[b][KVSize(keys_values_wm')] =
                      KeyEntry(1, ActEmbedding(last_call.actions[b]),
                               keys_values_wm_size_list[b])
       /\ Enters("forwarded") =>
             /\ pc = "forwarded_action"
             /\ KVSize(keys_values_wm') = SeqMax(keys_values_wm_size_list) + 2
             /\ \A b \in 1..BatchSize :
                  keys_values_wm'[1].k.cache[b][KVSize(keys_values_wm')] =
                      KeyEntry(1, ObsEmbedding(last_call.outputs[b]),
                               keys_values_wm_size_list[b] + 1)
       /\ (last_call'.op = "recurrent" /\ store_log' # store_log) =>
             /\ pc = "forwarded"
             /\ pc' = "stored"
             /\ KVSize(keys_values_wm) = SeqMax(keys_values_wm_size_list) + 2
             /\ Len(store_log') = Len(store_log) + BatchSize
      ]_vars

\* A recurrent step over env_num items, one found in a pool and one not,
\* with contexts of different sizes, has made its stores.
C15_Witness ==
    /\ pc = "stored"
    /\ last_call.op = "recurrent"
    /\ BatchSize = env_num
    /\ hit_count > 0
    /\ \E b \in 1..BatchSize :
         keys_values_wm_size_list[b] # SeqMax(keys_values_wm_size_list)
    /\ Len(store_log) >= 2 * env_num

\* The slot indices a hash index records.
Recorded(d) == {d[h] : h \in DOMAIN d}

\* The number of stores made into a pool (of environment e, for the init
\* pools).
StoresInto(pool, e) ==
    Cardinality({k \in 1..Len(store_log) :
                    store_log[k].pool = pool /\ store_log[k].env = e})

\* C16: each pool's write cursor lies in [0, capacity of that pool), and
\* every slot index recorded in a hash index, handed out for a store or
\* held in the batch list lies in [0, capacity of the pool it refers to).
C16_IndicesInRange ==
    /\ shared_pool_index \in 0..(shared_pool_size - 1)
    /\ shared_pool_index_wm \in 0..(shared_pool_size_wm - 1)
    /\ \A e \in Envs :
         /\ shared_pool_index_init_envs[e] \in 0..(shared_pool_size_init - 1)
         /\ Recorded(past_kv_cache_init_infer_envs[e])
               \subseteq 0..(shared_pool_size_init - 1)
    /\ Recorded(past_kv_cache_recurrent_infer) \subseteq 0..(shared_pool_size - 1)
    /\ Len(shared_pool_recur_infer) = shared_pool_size
    /\ Len(shared_pool_wm) = shared_pool_size_wm
    /\ \A e \in Envs : Len(shared_pool_init_infer[e]) = shared_pool_size_init
    /\ \A k \in 1..Len(store_log) :
         /\ store_log[k].pool = "init" =>
               store_log[k].index \in 0..(shared_pool_size_init - 1)
         /\ store_log[k].pool = "recur" =>
               store_log[k].index \in 0..(shared_pool_size - 1)
    /\ \A b \in 1..Len(keys_values_wm_list) :
         keys_values_wm_list[b].slot \in -1..(shared_pool_size_wm - 1)

\* The cursors of an init pool, of the recurrent pool and of the scratch
\* pool have each been advanced past the last slot of their pool.
C16_Witness ==
    /\ \E e \in Envs : StoresInto("init", e) > shared_pool_size_init
    /\ hit_count + root_hit_cnt >= shared_pool_size_wm
    /\ shared_pool_index_wm = 0
    /\ Cardinality({k \in 1..Len(store_log) : store_log[k].pool = "recur"})
          >= shared_pool_size
    /\ shared_pool_index = 0
    /\ past_kv_cache_recurrent_infer # EmptyDict
    /\ error = "none"

(***************************************************************************)
(* The two pool stores called with contexts of different layer counts      *)
(***************************************************************************)
MaxShapeStores == 3

\* A KeysValues with the first m layers of kv (len(kv) = m).
FirstLayers(kv, m) == SubSeq(kv, 1, m)

ShapeSamples ==
    SampleContexts \cup
    { FirstLayers(ContextOf(<< ObsEmbedding(2), ActEmbedding(0) >>, 2),
                  num_layers - 1) }

NextShape ==
    /\ Len(store_log) < MaxShapeStores
    /\ \/ \E src_kv \in ShapeSamples : StoreRecur(src_kv)
       \/ \E env_id \in Envs : \E src_kv \in ShapeSamples : StoreInit(env_id, src_kv)

SpecShape == InitPool /\ [][NextShape]_vars

\* The pool a store was made into, and the store just made.
PoolOf(ev, pool_init, pool_recur) ==
    IF ev.pool = "init" THEN pool_init[ev.env] ELSE pool_recur
LastStore == store_log'[Len(store_log')]

\* C17 as stated: a store into an allocated slot of a context whose layer
\* count differs from the slot's fails with ShapeMismatch and leaves the
\* slot as it was.
C17_Original ==
    [][Len(store_log') > Len(store_log) =>
         LET old == PoolOf(LastStore, shared_pool_init_infer,
                           shared_pool_recur_infer)[LastStore.index + 1]
             new == PoolOf(LastStore, shared_pool_init_infer',
                           shared_pool_recur_infer')[LastStore.index + 1]
         IN (old # None /\ Len(old) # Len(LastStore.src)) =>
                /\ error' = "ShapeMismatch"
                /\ new = old
      ]_vars

(***************************************************************************)
(* Two runs of one sequence of calls, from constructed states that differ  *)
(* in the statistics counters only.  twin.script is the sequence, twin.run *)
(* the run being made and twin.snapshot what the first run ended in.       *)
(***************************************************************************)
MaxTwinCalls == 3

TwinCalls ==
    {Call("initial_first", << >>, << >>, current_obs) :
        current_obs \in Batch(1, Latents)}
    \cup {Call("initial_continue", last_obs, batch_action, current_obs) :
            last_obs \in Batch(1, Latents), batch_action \in Batch(1, Actions),
            current_obs \in Batch(1, Latents)}
    \cup {Call("recurrent", latest_state, action, next_latent) :
            latest_state \in Batch(1, Latents), action \in Batch(1, Actions),
            next_latent \in Batch(1, Latents)}
    \cup {Call("clear", << >>, << >>, << >>)}

Scripts == UNION {[1..m -> TwinCalls] : m \in 1..MaxTwinCalls}

\* The values _initialize_statistics' counters start the second run with
\* (hit_count, total_query_count, root_hit_cnt, root_total_query_cnt).
CounterStarts ==
    {<< c, c, d, d >> : c \in {0, CounterShift}, d \in {0, CounterShift}}
        \ {<< 0, 0, 0, 0 >>}

InitTwin ==
    /\ context_length = 4
    /\ rotary_emb = FALSE
    /\ empty_fill \in {0, 9}
    /\ pc = "idle"
    /\ Constructed
    /\ \E script \in Scripts :
         twin = [script |-> script, run |-> 1, snapshot |-> << >>]

\* The call c made on the model.
Apply(c) ==
    \/ /\ c.op = "initial_first"
       /\ InitialInferenceFirstStep(Len(c.outputs), c.outputs)
    \/ /\ c.op = "initial_continue"
       /\ InitialInferenceContinue(Len(c.outputs), c.states, c.actions, c.outputs)
    \/ /\ c.op = "recurrent"
       /\ RecurrentInference(Len(c.outputs), c.states, c.actions, c.outputs)
    \/ /\ c.op = "clear"
       /\ ClearCaches

\* Pools, cursors, hash indices and the contexts handed to the batch:
\* every attribute but the four counters.
Projection ==
    << context_length, rotary_emb, empty_fill, reanalyze_phase,
       shared_pool_recur_infer, shared_pool_index,
       shared_pool_init_infer, shared_pool_index_init_envs,
       shared_pool_wm, shared_pool_index_wm,
       past_kv_cache_recurrent_infer, past_kv_cache_init_infer_envs,
       keys_values_wm_list, keys_values_wm_size_list,
       keys_values_wm_size_list_current,
       keys_values_wm, keys_values_wm_single_env, latent_state,
       error, pc, last_call, calls, simulation_index, store_log >>

RunStep ==
    /\ twin.run \in {1, 2}
    /\ calls < Len(twin.script)
    /\ Apply(twin.script[calls + 1])

\* The first run is over: a second model is constructed with other counter
\* values.
Restart ==
    /\ twin.run = 1
    /\ calls = Len(twin.script)
    /\ twin' = [twin EXCEPT !.run = 2, !.snapshot = Projection]
    /\ \E start \in CounterStarts :
         /\ hit_count' = start[1]
         /\ total_query_count' = start[2]
         /\ root_hit_cnt' = start[3]
         /\ root_total_query_cnt' = start[4]
    /\ shared_pool_recur_infer' = [j \in 1..shared_pool_size |-> None]
    /\ shared_pool_index' = 0
    /\ shared_pool_init_infer' =
           [e \in Envs |-> [j \in 1..shared_pool_size_init |-> None]]
    /\ shared_pool_index_init_envs' = [e \in Envs |-> 0]
    /\ shared_pool_wm' = [j \in 1..shared_pool_size_wm |-> None]
    /\ shared_pool_index_wm' = 0
    /\ past_kv_cache_recurrent_infer' = EmptyDict
    /\ past_kv_cache_init_infer_envs' = [e \in Envs |-> EmptyDict]
    /\ keys_values_wm_list' = << >>
    /\ keys_values_wm_size_list' = << >>
    /\ keys_values_wm_size_list_current' = << >>
    /\ keys_values_wm' = generate_empty_keys_values(env_num)
    /\ keys_values_wm_single_env' = generate_empty_keys_values(1)
    /\ latent_state' = None
    /\ error' = "none"
    /\ pc' = "idle"
    /\ last_call' = Call("none", << >>, << >>, << >>)
    /\ calls' = 0
    /\ simulation_index' = 0
    /\ store_log' = << >>
    /\ UNCHANGED << context_length, rotary_emb, empty_fill, reanalyze_phase >>

NextTwin ==
    \/ RunStep
    \/ Restart

SpecTwin == InitTwin /\ [][NextTwin]_vars

\* What a handler needs to be called: no earlier call has failed, and
\* forward_recurrent_inference has a self.latent_state to delete.
CanMake(c) ==
    /\ pc = "idle" /\ error = "none"
    /\ c.op = "recurrent" => latent_state # None

\* C18: two runs that start in states differing only in hit_count,
\* total_query_count, root_hit_cnt and root_total_query_cnt and make the
\* same calls end with the same pools, cursors, hash indices and contexts,
\* and a call the first run could make the second can make too.
C18_CountersDoNotInterfere ==
    twin.run = 2 =>
        /\ calls = Len(twin.script) => Projection = twin.snapshot
        /\ calls < Len(twin.script) => CanMake(twin.script[calls + 1])

\* The second run has ended, each of the four counters having been
\* incremented on the way.
C18_Witness ==
    /\ twin.run = 2
    /\ calls = Len(twin.script)
    /\ calls = MaxTwinCalls
    /\ hit_count \notin {0, CounterShift}
    /\ total_query_count \notin {0, CounterShift}
    /\ root_hit_cnt \notin {0, CounterShift}
    /\ root_total_query_cnt \notin {0, CounterShift}

\* The positions in store_log' of the stores this step made into slot j of
\* a pool (of environment e, for the init pools; e = -1 otherwise).
NewStores(pool, e, j) ==
    {k \in (Len(store_log) + 1)..Len(store_log') :
        /\ store_log'[k].pool = pool
        /\ store_log'[k].env = e
        /\ store_log'[k].index = j}

\* A slot after a step: what the last store into it copied, and as it was
\* if no store selected it.
SlotFollows(old, new, stores) ==
    IF stores = {} THEN new = old
    ELSE new = store_log'[Max(stores)].src

\* C19: a slot of the init pools or of the recurrent pool changes only in
\* a step that stores into it and then holds what that store copied; the
\* lookups, trim-and-pad, the forward passes, the window shrink and the
\* positional correction leave every other pooled context as it was.
C19_SlotsAreSnapshots ==
    [][/\ \A j \in 0..(shared_pool_size - 1) :
            SlotFollows(shared_pool_recur_infer[j + 1],
                        shared_pool_recur_infer'[j + 1],
                        NewStores("recur", -1, j))
       /\ \A e \in Envs : \A j \in 0..(shared_pool_size_init - 1) :
            SlotFollows(shared_pool_init_infer[e][j + 1],
                        shared_pool_init_infer'[e][j + 1],
                        NewStores("init", e, j))
      ]_vars

\* A recurrent step has found a context in a pool, shrunk the window of the
\* context it stores, and a context stored by the initial inference is
\* still pooled.
C19_Witness ==
    /\ pc = "stored"
    /\ hit_count > 0
    /\ store_log # << >>
    /\ store_log[Len(store_log)].pool = "recur"
    /\ keys_values_wm_size_list_current[Len(last_call.states)]
          >= context_length - 1
    /\ KVSize(store_log[Len(store_log)].src) = context_length - 3
    /\ \E k \in 1..Len(store_log) :
         /\ store_log[k].pool = "init"
         /\ shared_pool_init_infer[store_log[k].env][store_log[k].index + 1]
               = store_log[k].src
    /\ keys_values_wm_single_env # store_log[1].src

(***************************************************************************)
(* Root inferences over up to env_num environments with a context window   *)
(* wide enough for a stored root context to hold several steps            *)
(***************************************************************************)
MaxRootCalls == 3
RootWindow == 7

InitRoot ==
    /\ context_length = RootWindow
    /\ rotary_emb = FALSE
    /\ empty_fill \in {0, 9}
    /\ pc = "idle"
    /\ Constructed
    /\ twin = NoTwin

NextRoot ==
    /\ calls < MaxRootCalls
    /\ \/ \E n \in 1..env_num : \E current_obs \in Batch(n, Latents) :
            InitialInferenceFirstStep(n, current_obs)
       \/ \E n \in 1..env_num :
          \E last_obs \in Batch(n, Latents), batch_action \in Batch(n, Actions),
             current_obs \in Batch(n, Latents) :
            InitialInferenceContinue(n, last_obs, batch_action, current_obs)
       \/ \E latest_state \in Batch(1, Latents), action \in Batch(1, Actions),
             next_latent \in Batch(1, Latents) :
            RecurrentInference(1, latest_state, action, next_latent)

SpecRoot == InitRoot /\ [][NextRoot]_vars

\* A cache entry written by a forward pass over a token (content a multiple
\* of 100, at least 100, plus a positional part), as opposed to the zeros
\* of F.pad and to unwritten memory.
IsTokenEntry(x) == x >= 50

\* The first `size` positions of every buffer of a context hold token
\* entries, the others zeros or unwritten memory.
FirstSizeValid(kv) ==
    \A l \in 1..Len(kv) : \A buf \in {kv[l].k, kv[l].v} :
    \A b \in 1..Len(buf.cache) : \A p \in 1..Len(buf.cache[b]) :
        IF p <= buf.size
        THEN IsTokenEntry(buf.cache[b][p])
        ELSE buf.cache[b][p] \in {0, empty_fill}

\* C20 as stated: in every context held in an init or recurrent pool slot
\* exactly the first `size` positions hold token entries; none of them is a
\* zero of trim-and-pad.
C20_Original ==
    \A kv \in PooledContexts : FirstSizeValid(kv)

\* The buffer (keys: kind 1, values: kind 2) of layer l of the context
\* retrieved or generated for batch item b.
Retrieved(b, l, kind) == Buffers(Assembled(b), l, 1)[kind]

\* The entry a forward pass appends for a token of content c at position p.
Appended(l, kind, c, p) ==
    IF kind = 1 THEN KeyEntry(l, c, p) ELSE ValueEntry(l, c, p)

\* The last of the step's batch items whose new latent state is that of
\* item b.
LastWithLatentOf(b) ==
    Max({b2 \in 1..BatchSize : last_call.outputs[b2] = last_call.outputs[b]})

\* C21: at the store of a recurrent inference over retrieved sizes
\* s_1..s_B the working cache has size max(s_i) + 2 and item i's current
\* size is s_i + 2; the context stored for item i holds, from position 0,
\* item i's s_i retrieved entries, the action entry and the observation
\* entry, with size s_i + 2, or has size context_length - 3 when
\* s_i + 2 >= context_length - 1; its slot index is recorded in the
\* recurrent index under the hash of item i's new latent state.
C21_InternalNodeUpdate ==
    [][(UpdateTaken /\ last_call.op = "recurrent") =>
         /\ KVSize(keys_values_wm) = SeqMax(keys_values_wm_size_list) + 2
         /\ Len(store_log') = Len(store_log) + BatchSize
         /\ \A b \in 1..BatchSize :
              LET s == keys_values_wm_size_list[b]
                  z == last_call.outputs[b]
              IN /\ keys_values_wm_size_list_current[b] = s + 2
                 /\ store_log'[Len(store_log) + b].pool = "recur"
                 /\ store_log'[Len(store_log) + b].key = hash_state(z)
                 /\ DictHas(past_kv_cache_recurrent_infer', hash_state(z))
                 /\ past_kv_cache_recurrent_infer'[hash_state(z)] =
                      store_log'[Len(store_log) + LastWithLatentOf(b)].index
                 /\ \A l \in Layers : \A kind \in 1..2 :
                      LET new == Buffers(Stored(b), l, 1)[kind]
                      IN IF s + 2 >= context_length - 1
                         THEN StoredSize(b, l, kind) = context_length - 3
                         ELSE /\ StoredSize(b, l, kind) = s + 2
                              /\ \A p \in 1..s : new[p] = Retrieved(b, l, kind)[p]
                              /\ new[s + 1] =
                                   Appended(l, kind,
                                       ActEmbedding(last_call.actions[b]), s)
                              /\ new[s + 2] =
                                   Appended(l, kind, ObsEmbedding(z), s + 1)
      ]_vars

\* A recurrent inference over env_num items has stored: one item was
\* retrieved with a larger size than the other, and the shorter one's
\* context was stored unshrunk.
C21_Witness ==
    /\ pc = "stored"
    /\ last_call.op = "recurrent"
    /\ BatchSize = env_num
    /\ \E b1, b2 \in 1..BatchSize :
         /\ keys_values_wm_size_list[b1] > keys_values_wm_size_list[b2]
         /\ keys_values_wm_size_list[b2] + 2 < context_length - 1
         /\ KVSize(store_log[Len(store_log) - BatchSize + b2].src) =
               keys_values_wm_size_list[b2] + 2
         /\ KVSize(store_log[Len(store_log) - BatchSize + b1].src) =
               context_length - 3

\* The latent state a store was recorded under (hash_state keeps it).
LatentOf(ev) == ev.key[2]

\* C22: for every environment with root stores since its index was last
\* cleared, a lookup by the hash of the latent state of the most recent of
\* them hits, in the root lookup and in the recurrent-inference lookup, and
\* returns a context with the size and content that store wrote; a
\* recurrent inference that has just looked it up holds a copy of it.
C22_NewestRootCacheFresh ==
    \A e \in Envs :
        LET log == InitStoresSinceClear(e)
            newest == log[Len(log)]
        IN Len(log) > 0 =>
             /\ RootMatchedValue(LatentOf(newest), e) = newest.src
             /\ MatchedValue(LatentOf(newest), e) = newest.src
             /\ KVSize(MatchedValue(LatentOf(newest), e)) = KVSize(newest.src)
             /\ LookedUp(e, LatentOf(newest)) =>
                  /\ keys_values_wm_list[e + 1].slot # -1
                  /\ keys_values_wm_size_list[e + 1] = KVSize(newest.src)
                  /\ Deref(keys_values_wm_list[e + 1], shared_pool_wm) = newest.src

\* After three root stores for an environment with no clear in between,
\* the last under a hash recorded before with another context, a recurrent
\* inference has looked that hash up.
C22_Witness ==
    \E e \in Envs :
        LET log == InitStoresSinceClear(e)
            newest == log[Len(log)]
        IN /\ Len(log) > shared_pool_size_init
           /\ LookedUp(e, LatentOf(newest))
           /\ \E k \in 1..(Len(log) - 1) :
                /\ log[k].key = newest.key
                /\ log[k].src # newest.src
                /\ KVSize(log[k].src) # KVSize(newest.src)

\* A step that is one call of forward_initial_inference (root-mode stores)
\* or of forward_recurrent_inference (internal-node stores).
RootCall ==
    /\ calls' = calls + 1
    /\ last_call'.op \in {"initial_first", "initial_continue"}
InternalCall ==
    /\ calls' = calls + 1
    /\ last_call'.op = "recurrent"

\* Environment e's init pool, cursor and hash index are left as they were.
InitUnchanged(e) ==
    /\ shared_pool_init_infer'[e] = shared_pool_init_infer[e]
    /\ shared_pool_index_init_envs'[e] = shared_pool_index_init_envs[e]
    /\ past_kv_cache_init_infer_envs'[e] = past_kv_cache_init_infer_envs[e]

\* Environment e's init pool, cursor and hash index after one root-mode
\* store under the hash of latent state z: the slot at the cursor is
\* written, the cursor advances by one, the hash is recorded.
InitStoredOnce(e, z) ==
    LET at == shared_pool_index_init_envs[e]
    IN /\ \A j \in 0..(shared_pool_size_init - 1) :
            j # at => shared_pool_init_infer'[e][j + 1] =
                         shared_pool_init_infer[e][j + 1]
       /\ shared_pool_init_infer'[e][at + 1] # None
       /\ shared_pool_index_init_envs'[e] = (at + 1) % shared_pool_size_init
       /\ past_kv_cache_init_infer_envs'[e] =
            DictPut(past_kv_cache_init_infer_envs[e], hash_state(z), at)

\* C23: the root-mode stores of a call over n environments change, for
\* each environment below n, only that environment's init pool, cursor and
\* hash index, by its own store; they leave the other environments' init
\* state and the recurrent pool and cursor unchanged and add nothing to the
\* recurrent index.  The internal-node stores of a recurrent inference
\* leave every init pool, cursor and index unchanged.
C23_InitStateIsolated ==
    [][/\ RootCall =>
            /\ \A e \in Envs :
                 IF e < Len(last_call'.outputs) /\ error' = "none"
                 THEN InitStoredOnce(e, last_call'.outputs[e + 1])
                 ELSE InitUnchanged(e)
            /\ shared_pool_recur_infer' = shared_pool_recur_infer
            /\ shared_pool_index' = shared_pool_index
            /\ DOMAIN past_kv_cache_recurrent_infer'
                  \subseteq DOMAIN past_kv_cache_recurrent_infer
       /\ InternalCall =>
            /\ \A e \in Envs : InitUnchanged(e)
            /\ error' = "none" =>
                  shared_pool_index' =
                     (shared_pool_index + Len(last_call'.outputs)) % shared_pool_size
      ]_vars

\* A root call for environment 0 alone and a recurrent inference have been
\* made while environment 1's init pool held a context.
C23_Witness ==
    /\ calls = MaxRootCalls
    /\ last_call.op = "recurrent"
    /\ Len(InitStoresSinceClear(0)) > Len(InitStoresSinceClear(1))
    /\ Len(InitStoresSinceClear(1)) > 0
    /\ store_log[2].pool = "init" /\ store_log[2].env = 1
    /\ past_kv_cache_init_infer_envs[1] # EmptyDict
    /\ shared_pool_index_init_envs[0] # shared_pool_index_init_envs[1]
    /\ past_kv_cache_recurrent_infer # EmptyDict

\* A step that is a call of clear_caches.
ClearCall == calls' = calls + 1 /\ last_call'.op = "clear"

\* The number of stores logged before position k into the pool of the
\* store at position k.
StoresBefore(k) ==
    Cardinality({k2 \in 1..(k - 1) :
                    /\ store_log[k2].pool = store_log[k].pool
                    /\ store_log[k2].env = store_log[k].env})

\* Every store, those after a clear included, has written the slot that
\* follows the one its pool's previous store wrote.
CursorsSurviveClears ==
    \A k \in 1..Len(store_log) :
        /\ store_log[k].pool = "init" =>
              store_log[k].index = StoresBefore(k) % shared_pool_size_init
        /\ store_log[k].pool = "recur" =>
              store_log[k].index = StoresBefore(k) % shared_pool_size

\* C24: clear_caches leaves every slot of the init, recurrent and scratch
\* pools, every write cursor and the four counters unchanged, and the first
\* store after a clear writes the slot the cursor pointed to before it.
C24_ClearKeepsPools ==
    [][/\ ClearCall =>
            /\ shared_pool_init_infer' = shared_pool_init_infer
            /\ shared_pool_recur_infer' = shared_pool_recur_infer
            /\ shared_pool_wm' = shared_pool_wm
            /\ shared_pool_index_init_envs' = shared_pool_index_init_envs
            /\ shared_pool_index' = shared_pool_index
            /\ shared_pool_index_wm' = shared_pool_index_wm
            /\ hit_count' = hit_count
            /\ total_query_count' = total_query_count
            /\ root_hit_cnt' = root_hit_cnt
            /\ root_total_query_cnt' = root_total_query_cnt
       /\ CursorsSurviveClears'
      ]_vars

\* clear_caches was called with contexts pooled, cursors off slot 0 and
\* counters above zero, and the root store and the recurrent store that
\* followed did not write slot 0.
C24_Witness ==
    /\ hit_count + root_hit_cnt > 0
    /\ \E k \in 1..Len(store_log) :
         /\ store_log[k].pool = "clear_init"
         /\ \E k1, k2 \in (k + 1)..Len(store_log) :
              /\ store_log[k1].pool = "init"
              /\ store_log[k1].index # 0
              /\ StoresBefore(k1) = 1
              /\ store_log[k2].pool = "recur"
              /\ store_log[k2].index # 0
              /\ StoresBefore(k2) = 1

\* The positions the step adds to the log at which the index fed by `pool`
\* (environment e's, for the init pools) is emptied, and those, after the
\* last of them, at which a context is stored and recorded in that index.
NewClears(pool) ==
    {k \in (Len(store_log) + 1)..Len(store_log') :
        store_log'[k].pool = IF pool = "init" THEN "clear_init"
                             ELSE "clear_recur"}
NewRecords(pool, e) ==
    {k \in (Len(store_log) + 1)..Len(store_log') :
        /\ store_log'[k].pool = pool
        /\ pool = "init" => store_log'[k].env = e
        /\ \A c \in NewClears(pool) : c < k}

\* One hash index over a step: d before, d2 after.
IndexStep(d, d2, pool, e) ==
    LET kept == IF NewClears(pool) = {} THEN DOMAIN d ELSE {}
        recs == NewRecords(pool, e)
        of(h) == {k \in recs : store_log'[k].key = h}
    IN /\ DOMAIN d2 = kept \cup {store_log'[k].key : k \in recs}
       /\ \A h \in DOMAIN d2 :
            d2[h] = IF of(h) # {} THEN store_log'[Max(of(h))].index ELSE d[h]
       /\ NewClears(pool) = {} => DOMAIN d \subseteq DOMAIN d2
       /\ Cardinality(DOMAIN d2) <= Cardinality(kept) + Cardinality(recs)

\* C25: a hash index maps each hash to one slot index, the one returned by
\* the last store made under that hash; entries leave an index only when the
\* whole index is emptied, and otherwise the set of hashes grows by at most
\* one per stored context.
C25_IndexLastWriteWins ==
    [][/\ \A e \in Envs :
            IndexStep(past_kv_cache_init_infer_envs[e],
                      past_kv_cache_init_infer_envs'[e], "init", e)
       /\ IndexStep(past_kv_cache_recurrent_infer,
                    past_kv_cache_recurrent_infer', "recur", 0)
      ]_vars

\* A context was stored under a hash the index already held, with a new
\* slot index, in the init index of environment 0 and in the recurrent one.
C25_Witness ==
    /\ \E k1, k2 \in 1..Len(store_log) :
         /\ k1 < k2
         /\ store_log[k1].pool = "init" /\ store_log[k2].pool = "init"
         /\ store_log[k1].env = 0 /\ store_log[k2].env = 0
         /\ store_log[k1].key = store_log[k2].key
         /\ store_log[k1].index # store_log[k2].index
         /\ \A k \in k1..k2 : store_log[k].pool # "clear_init"
         /\ DictHas(past_kv_cache_init_infer_envs[0], store_log[k2].key)
    /\ \E k1, k2 \in 1..Len(store_log) :
         /\ k1 < k2
         /\ store_log[k1].pool = "recur" /\ store_log[k2].pool = "recur"
         /\ store_log[k1].key = store_log[k2].key
         /\ store_log[k1].index # store_log[k2].index
         /\ \A k \in k1..k2 : store_log[k].pool # "clear_recur"
         /\ DictHas(past_kv_cache_recurrent_infer, store_log[k2].key)

\* The slots of a pool that hold an allocated context.
AllocatedSlots(pool) == {j \in 1..Len(pool) : pool[j] # None}

\* After k stores a pool of capacity C holds a context in its first
\* min(k, C) slots and None in the others.
AllocatedAfter(pool, k) ==
    AllocatedSlots(pool) = 1..(IF k < Len(pool) THEN k ELSE Len(pool))

\* A pool over a step: an allocated slot stays allocated, as the same
\* context (layer count and buffer length as allocated).
SlotsStayAllocated(pool, pool2) ==
    \A j \in AllocatedSlots(pool) :
        /\ pool2[j] # None
        /\ Len(pool2[j]) = Len(pool[j])
        /\ \A l \in 1..Len(pool[j]) :
             /\ Len(pool2[j][l].k.cache) = Len(pool[j][l].k.cache)
             /\ Len(pool2[j][l].v.cache) = Len(pool[j][l].v.cache)

\* C26: a pool slot is None until the first store that selects it and is
\* never None afterwards, later stores keeping the context allocated there;
\* a pool of capacity C holds min(k, C) contexts after k stores, and all
\* pools together never hold more than
\* 2*env_num + num_simulations*env_num + env_num contexts.
C26_SlotsAllocatedOnce ==
    [][/\ \A e \in Envs :
            /\ SlotsStayAllocated(shared_pool_init_infer[e],
                                  shared_pool_init_infer'[e])
            /\ AllocatedAfter(shared_pool_init_infer[e], StoresInto("init", e))'
       /\ SlotsStayAllocated(shared_pool_recur_infer, shared_pool_recur_infer')
       /\ AllocatedAfter(shared_pool_recur_infer,
                         Cardinality({k \in 1..Len(store_log) :
                                         store_log[k].pool = "recur"}))'
       /\ SlotsStayAllocated(shared_pool_wm, shared_pool_wm')
       /\ AllocatedAfter(shared_pool_wm, hit_count + root_hit_cnt)'
       /\ (Cardinality(AllocatedSlots(shared_pool_recur_infer))
             + Cardinality(AllocatedSlots(shared_pool_wm))
             + Cardinality({<<e, j>> \in Envs \X (1..shared_pool_size_init) :
                               shared_pool_init_infer[e][j] # None})
             <= 2 * env_num + num_simulations * env_num + env_num)'
      ]_vars

\* An init pool and the recurrent pool have each taken more stores than
\* they have slots, the scratch pool has taken one, and the pool of the
\* environment that was never used is still unallocated.
C26_Witness ==
    /\ StoresInto("init", 0) > shared_pool_size_init
    /\ Cardinality({k \in 1..Len(store_log) : store_log[k].pool = "recur"})
          >= shared_pool_size
    /\ AllocatedSlots(shared_pool_recur_infer) = 1..shared_pool_size
    /\ AllocatedSlots(shared_pool_init_infer[0]) = 1..shared_pool_size_init
    /\ AllocatedSlots(shared_pool_init_infer[1]) = {}
    /\ AllocatedSlots(shared_pool_wm) # {}
    /\ error = "none"

\* The step stores a context (update_cache_context ran) and the working
\* cache it reads has reached the size at which the window is shrunk.
ShrinkFires ==
    /\ Len(store_log') > Len(store_log)
    /\ store_log'[Len(store_log')].src # None
    /\ context_length > 2
    /\ KVSize(keys_values_wm') >= context_length - 1

\* C27 as stated: whenever the window shrink fires the context's size is
\* exactly context_length - 1, so that the retained span
\* [2, context_length - 1) ends at the newest entry, index size - 1.
C27_Original ==
    [][ShrinkFires =>
          /\ KVSize(keys_values_wm') = context_length - 1
          /\ KVSize(keys_values_wm') - 1 = context_length - 2
      ]_vars

\* Batch item b of the list being assembled holds what its lookup produced:
\* for a hit a scratch-pool slot with the matched context's layers, for a
\* miss the context generated for its latent state.
HoldsItsLookup(b) ==
    LET matched_value == MatchedValue(last_call.states[b], b - 1)
        entry == keys_values_wm_list[b]
    IN IF matched_value # None
       THEN /\ entry.slot >= 0
            /\ Deref(entry, shared_pool_wm) = matched_value
       ELSE /\ entry.slot = -1
            /\ entry.kv = GenerateForMiss(last_call.states[b])

\* C28: while the batch list of a step over at most env_num items is
\* assembled, and until trim-and-pad has consumed it, its entries are
\* distinct buffers: every hit sits in a scratch-pool slot of its own, every
\* miss in a context generated for it, and each entry still holds the
\* content its own lookup produced.
C28_BatchEntriesDistinct ==
    pc \in {"retrieving", "assembled"} =>
        /\ Len(keys_values_wm_list) <= env_num
        /\ \A b \in 1..Len(keys_values_wm_list) :
             /\ HoldsItsLookup(b)
             /\ \A b2 \in 1..Len(keys_values_wm_list) :
                  (b2 # b /\ keys_values_wm_list[b].slot >= 0) =>
                      keys_values_wm_list[b2].slot # keys_values_wm_list[b].slot

\* A batch of two items was assembled from two hits whose contexts differ,
\* the second copied after the first.
C28_Witness ==
    /\ pc = "assembled"
    /\ Len(keys_values_wm_list) = 2
    /\ keys_values_wm_list[1].slot >= 0
    /\ keys_values_wm_list[2].slot >= 0
    /\ Deref(keys_values_wm_list[1], shared_pool_wm)
          # Deref(keys_values_wm_list[2], shared_pool_wm)

\* The last store logged into slot j of the recurrent pool (0 if none).
LastRecurStore(j) ==
    Max({0} \cup {k \in 1..Len(store_log) :
                     store_log[k].pool = "recur" /\ store_log[k].index = j})

\* Every entry of the recurrent index refers to a slot whose content was
\* stored by a recurrent inference after the index was last emptied.
RecurEntriesAreRecent ==
    \A h \in DOMAIN past_kv_cache_recurrent_infer :
        LET j == past_kv_cache_recurrent_infer[h]
        IN /\ LastRecurStore(j) > LastEvent("clear_recur")
           /\ shared_pool_recur_infer[j + 1] # None
           /\ KVSize(shared_pool_recur_infer[j + 1])
                 = KVSize(store_log[LastRecurStore(j)].src)

\* C29: a call of forward_initial_inference that returns leaves the
\* recurrent index empty and the recurrent pool and its cursor as they
\* were; an entry of the recurrent index therefore always refers to a
\* context stored by a recurrent inference made after the most recent
\* initial inference.
C29_RootEmptiesRecurrentIndex ==
    [][/\ (/\ calls' = calls + 1
           /\ last_call'.op \in {"initial_first", "initial_continue",
                                 "initial_train"}
           /\ error' = "none") =>
             /\ past_kv_cache_recurrent_infer' = EmptyDict
             /\ shared_pool_recur_infer' = shared_pool_recur_infer
             /\ shared_pool_index' = shared_pool_index
             /\ store_log'[Len(store_log')] = ClearEvent("clear_recur")
       /\ RecurEntriesAreRecent'
      ]_vars

\* An initial inference emptied a recurrent index that held an entry, a
\* recurrent inference stored a context after it, and the next recurrent
\* inference found that context through the recurrent index.
C29_Witness ==
    /\ last_call.op = "recurrent"
    /\ error = "none"
    /\ store_log[Len(store_log)].pool = "recur"
    /\ \E k1, k2, k3 \in 1..(Len(store_log) - 1) :
         /\ k1 < k2 /\ k2 < k3
         /\ store_log[k1].pool = "recur"
         /\ store_log[k2].pool = "clear_recur"
         /\ k2 = LastEvent("clear_recur")
         /\ store_log[k2 - 1].pool = "init"
         /\ store_log[k3].pool = "recur"
         /\ store_log[k3].key = hash_state(last_call.states[1])
         /\ ~DictHas(past_kv_cache_init_infer_envs[0], store_log[k3].key)
         /\ KVSize(store_log[Len(store_log)].src) > 1

(***************************************************************************)
(* SpecReanalyze: the calls of Spec on a model whose reanalyze_phase flag  *)
(* the caller has either left as constructed or set.                       *)
(***************************************************************************)
InitReanalyze ==
    /\ context_length = 4
    /\ rotary_emb = FALSE
    /\ empty_fill \in {0, 9}
    /\ pc = "idle"
    /\ reanalyze_phase \in BOOLEAN
    /\ shared_pool_recur_infer = [j \in 1..shared_pool_size |-> None]
    /\ shared_pool_index = 0
    /\ shared_pool_init_infer =
           [e \in Envs |-> [j \in 1..shared_pool_size_init |-> None]]
    /\ shared_pool_index_init_envs = [e \in Envs |-> 0]
    /\ shared_pool_wm = [j \in 1..shared_pool_size_wm |-> None]
    /\ shared_pool_index_wm = 0
    /\ past_kv_cache_recurrent_infer = EmptyDict
    /\ past_kv_cache_init_infer_envs = [e \in Envs |-> EmptyDict]
    /\ keys_values_wm_list = << >>
    /\ keys_values_wm_size_list = << >>
    /\ keys_values_wm_size_list_current = << >>
    /\ keys_values_wm = generate_empty_keys_values(env_num)
    /\ keys_values_wm_single_env = generate_empty_keys_values(1)
    /\ latent_state = None
    /\ hit_count = 0 /\ total_query_count = 0
    /\ root_hit_cnt = 0 /\ root_total_query_cnt = 0
    /\ error = "none"
    /\ last_call = Call("none", << >>, << >>, << >>)
    /\ calls = 0
    /\ simulation_index = 0
    /\ store_log = << >>
    /\ twin = NoTwin

SpecReanalyze == InitReanalyze /\ [][Next]_vars

\* C30: while reanalyze_phase is set, retrieve_or_generate_kvcache reports
\* no hit whatever the indices hold: hit_count stays, total_query_count
\* grows by one per batch item, every item gets a context of size 1
\* generated for its latent state, and the scratch pool, to which a hit
\* would be copied, is left as it was.
C30_ReanalyzeNeverHits ==
    [][(InternalCall /\ reanalyze_phase) =>
          /\ hit_count' = hit_count
          /\ total_query_count' = total_query_count + Len(last_call'.states)
          /\ Len(keys_values_wm_list') = Len(last_call'.states)
          /\ \A b \in 1..Len(last_call'.states) :
               /\ keys_values_wm_list'[b]
                     = FreshRef(GenerateForMiss(last_call'.states[b]))
               /\ KVSize(keys_values_wm_list'[b].kv) = 1
               /\ keys_values_wm_size_list'[b] = 1
          /\ shared_pool_wm' = shared_pool_wm
          /\ shared_pool_index_wm' = shared_pool_index_wm
      ]_vars

\* With reanalyze_phase set, a recurrent inference looked up two latent
\* states, the first recorded in environment 0's init index, the second
\* recorded in the recurrent index only, by an earlier recurrent inference.
C30_Witness ==
    /\ reanalyze_phase
    /\ last_call.op = "recurrent"
    /\ error = "none"
    /\ Len(last_call.states) = 2
    /\ DictHas(past_kv_cache_init_infer_envs[0], hash_state(last_call.states[1]))
    /\ ~DictHas(past_kv_cache_init_infer_envs[1], hash_state(last_call.states[2]))
    /\ \E k \in (LastEvent("clear_recur") + 1)..(Len(store_log) - 2) :
         /\ store_log[k].pool = "recur"
         /\ store_log[k].key = hash_state(last_call.states[2])

====
